---- MODULE Spec2Model ----
(***************************************************************************)
(* DevKB: document ingestion (classification, chunking, content-addressed  *)
(* deduplication, persistence, embedding submission) and retrieval.        *)
(*                                                                         *)
(* Text is modelled character by character: a Python str is a sequence of  *)
(* one-character strings, so len(), split(), join(), strip(), startswith() *)
(* and the "in" substring test are computed as the code computes them.     *)
(***************************************************************************)
EXTENDS Integers, Sequences, FiniteSets, TLC

VARIABLES
    chunkIn,      \* arguments of the chunker call under study
    chunkOut,     \* [op, language, chunks] once a chunker has run, else NoCall
    settings,     \* app.config.settings (max_chunk_size, chunk_overlap, ...)
    documents,    \* rows of table documents
    snippets,     \* rows of table code_snippets
    sqlite_sequence, \* AUTOINCREMENT high-water marks per table
    collection,   \* the ChromaDB collection: embedding id -> record
    last,         \* the last call: operation, arguments, outcome
    calls,        \* the concurrent calls in flight: position and locals of each
    searchIn,     \* arguments and collaborator answer of the search under study
    searchOut     \* results of the search once it has run, else NoCall

vars == <<chunkIn, chunkOut, settings, documents, snippets, sqlite_sequence,
          collection, last, calls, searchIn, searchOut>>

chunkVars == <<chunkIn, chunkOut>>
storeVars == <<settings, documents, snippets, sqlite_sequence, collection,
               last, calls>>
searchVars == <<searchIn, searchOut>>

NoCall == [op |-> "none"]
None == "None"

(***************************************************************************)
(* Bounds of the explored inputs.                                          *)
(***************************************************************************)
MaxLines == 3        \* lines per generated content
MaxSizeBound == 4    \* small max_chunk_size values tried: 1..MaxSizeBound
MaxOverlapBound == 2 \* small chunk_overlap values tried: 0..MaxOverlapBound
MaxDocs == 2         \* document rows ever inserted in one run

DefaultMaxChunkSize == 1000
DefaultChunkOverlap == 200

Min(a, b) == IF a < b THEN a ELSE b
Max(a, b) == IF a > b THEN a ELSE b

(***************************************************************************)
(* Python str and list primitives.  A character is a one-character string  *)
(* with a code point in U+0000..U+00FF; the three characters that         *)
(* str.title and str.lower produce from that range and that lie outside it *)
(* carry their code point as their name.  Other characters above U+00FF    *)
(* are not values of this model.                                           *)
(***************************************************************************)
NL == "\n"

\* the characters str.strip(), str.split() and \s of re take for
\* whitespace: U+0009..U+000D, U+001C..U+001F, U+0020, U+0085, U+00A0
Whitespace == {" ", "\t", "\n", "\r", "\f", "", "", "", "", "",
               "", " "}

\* the characters with a one-character lower-case partner: A-Z, then
\* U+00C0..U+00DE without the multiplication sign
UpperChars == <<"A","B","C","D","E","F","G","H","I","J","K","L","M",
                "N","O","P","Q","R","S","T","U","V","W","X","Y","Z",
                "À","Á","Â","Ã","Ä","Å","Æ","Ç","È","É","Ê","Ë","Ì",
                "Í","Î","Ï","Ð","Ñ","Ò","Ó","Ô","Õ","Ö","Ø","Ù","Ú",
                "Û","Ü","Ý","Þ">>
LowerChars == <<"a","b","c","d","e","f","g","h","i","j","k","l","m",
                "n","o","p","q","r","s","t","u","v","w","x","y","z",
                "à","á","â","ã","ä","å","æ","ç","è","é","ê","ë","ì",
                "í","î","ï","ð","ñ","ò","ó","ô","õ","ö","ø","ù","ú",
                "û","ü","ý","þ">>

\* U+039C and U+0178, the title-case forms of U+00B5 and U+00FF, and
\* U+03BC, the lower-case form of U+039C
GreekCapitalMu == "U+039C"
CapitalYDiaeresis == "U+0178"
GreekSmallMu == "U+03BC"

\* the lower-case form of one character: U+0178 has U+00FF, U+039C has
\* U+03BC
LowerChar(c) ==
    IF \E k \in DOMAIN UpperChars : UpperChars[k] = c
    THEN LowerChars[CHOOSE k \in DOMAIN UpperChars : UpperChars[k] = c]
    ELSE IF c = CapitalYDiaeresis THEN "ÿ"
    ELSE IF c = GreekCapitalMu THEN GreekSmallMu
    ELSE c

\* str.lower()
lower(s) == [k \in 1..Len(s) |-> LowerChar(s[k])]

\* the title-case form of one character, a str: one character but for
\* U+00DF, whose form is "Ss"
UpperChar(c) ==
    IF \E k \in DOMAIN UpperChars : LowerChars[k] = c
    THEN <<UpperChars[CHOOSE k \in DOMAIN UpperChars : LowerChars[k] = c]>>
    ELSE IF c = "ß" THEN <<"S", "s">>
    ELSE IF c = "µ" \/ c = GreekSmallMu THEN <<GreekCapitalMu>>
    ELSE IF c = "ÿ" THEN <<CapitalYDiaeresis>>
    ELSE <<c>>

\* cased characters: those with a partner, and U+00AA, U+00B5, U+00BA,
\* U+00DF, U+00FF, U+0178, U+039C, U+03BC
IsCased(c) ==
    \/ \E k \in DOMAIN UpperChars : UpperChars[k] = c \/ LowerChars[k] = c
    \/ c \in {"ª", "µ", "º", "ß", "ÿ"}
    \/ c \in {GreekCapitalMu, CapitalYDiaeresis, GreekSmallMu}

RECURSIVE Concat(_)
\* "".join(parts)
Concat(parts) ==
    IF parts = <<>> THEN <<>> ELSE Head(parts) \o Concat(Tail(parts))

\* str.title(): a character is title-cased after an uncased one (or at the
\* start) and lower-cased after a cased one
str_title(s) ==
    Concat([k \in 1..Len(s) |->
               IF k > 1 /\ IsCased(s[k - 1]) THEN <<LowerChar(s[k])>>
               ELSE UpperChar(s[k])])

\* str.replace(old, new) for one-character strs
replace(s, old, new) == [k \in 1..Len(s) |-> IF s[k] = old THEN new ELSE s[k]]

\* s[i:] of a str or list, for an index 0 <= i
DropFirst(s, n) == SubSeq(s, Min(n, Len(s)) + 1, Len(s))

\* list[-k:] exactly as Python slices it: the last k items for 0 < k,
\* the whole list for k = 0 (since -0 = 0), and list[|k|:] for k < 0.
NegSlice(lst, k) ==
    IF k > 0 THEN SubSeq(lst, Max(Len(lst) - k, 0) + 1, Len(lst))
    ELSE DropFirst(lst, -k)

\* str.startswith(p)
startswith(s, p) == Len(p) <= Len(s) /\ SubSeq(s, 1, Len(p)) = p

\* p in s, for strs
contains(s, p) ==
    \E k \in 0..(Len(s) - Len(p)) : SubSeq(s, k + 1, k + Len(p)) = p

\* str.strip()
strip(s) ==
    LET keep == {k \in 1..Len(s) : s[k] \notin Whitespace}
    IN  IF keep = {} THEN <<>>
        ELSE SubSeq(s, CHOOSE k \in keep : \A j \in keep : k <= j,
                       CHOOSE k \in keep : \A j \in keep : j <= k)

RECURSIVE SplitFrom(_, _, _, _)
SplitFrom(s, sep, i, acc) ==
    IF i > Len(s) THEN acc
    ELSE IF s[i] = sep THEN SplitFrom(s, sep, i + 1, Append(acc, <<>>))
    ELSE SplitFrom(s, sep, i + 1, [acc EXCEPT ![Len(acc)] = Append(@, s[i])])

\* str.split(sep) for a one-character separator: never an empty list
split(s, sep) == SplitFrom(s, sep, 1, << <<>> >>)

RECURSIVE join(_, _)
\* sep.join(parts), sep a str
join(sep, parts) ==
    IF parts = <<>> THEN <<>>
    ELSE IF Len(parts) = 1 THEN parts[1]
    ELSE parts[1] \o sep \o join(sep, Tail(parts))

RECURSIVE SumLen(_)
\* sum(len(l) for l in parts)
SumLen(parts) ==
    IF parts = <<>> THEN 0 ELSE Len(Head(parts)) + SumLen(Tail(parts))

(***************************************************************************)
(* DocumentService._chunk_text (documents.py 279-320).                     *)
(***************************************************************************)
TextDraft(current_chunk, start_line, end_line) ==
    [text |-> join(<<NL>>, current_chunk), start_line |-> start_line,
     end_line |-> end_line, language |-> "plain", intent |-> "text"]

OverlapStart_ByOverlap(i, overlap_lines, overlap) == i - overlap

\* start_line of the chunk seeded with overlap_lines, when line i triggered
\* the flush
OverlapStart(i, overlap_lines, overlap) == i - Len(overlap_lines)

\* one iteration of the for loop, for line number i
ChunkTextStep(st, line, i, max_size, overlap) ==
    LET flush == /\ st.current_size + Len(line) > max_size
                 /\ st.current_chunk # <<>>
        overlap_lines == NegSlice(st.current_chunk, overlap)
        st1 == IF flush
               THEN [chunks |-> Append(st.chunks,
                                       TextDraft(st.current_chunk,
                                                 st.start_line, i - 1)),
                     current_chunk |-> overlap_lines,
                     current_size |-> SumLen(overlap_lines),
                     start_line |-> OverlapStart(i, overlap_lines, overlap)]
               ELSE st
    IN  [st1 EXCEPT !.current_chunk = Append(@, line),
                    !.current_size = @ + Len(line)]

RECURSIVE ChunkTextLoop(_, _, _, _, _)
ChunkTextLoop(lines, i, st, max_size, overlap) ==
    IF i > Len(lines) THEN st
    ELSE ChunkTextLoop(lines, i + 1,
                       ChunkTextStep(st, lines[i], i, max_size, overlap),
                       max_size, overlap)

LoopStart == [chunks |-> <<>>, current_chunk |-> <<>>, current_size |-> 0,
              start_line |-> 1]

\* the chunk appended after the loop (lines 311-318)
TextTail(st, lines) ==
    IF st.current_chunk # <<>>
    THEN Append(st.chunks,
                TextDraft(st.current_chunk, st.start_line, Len(lines)))
    ELSE st.chunks

_chunk_text(content, max_size, overlap) ==
    LET lines == split(content, NL)
    IN  TextTail(ChunkTextLoop(lines, 1, LoopStart, max_size, overlap), lines)

(***************************************************************************)
(* DocumentService._detect_code_intent (documents.py 190-209).             *)
(***************************************************************************)
_detect_code_intent(code, language) ==
    LET code_lower == lower(code)
        has(w) == contains(code_lower, w)
    IN  IF has(<<"t","e","s","t">>) \/ has(<<"s","p","e","c">>) THEN "test"
        ELSE IF has(<<"c","o","n","f","i","g">>) \/ has(<<"s","e","t","t","i",
            "n","g","s">>) THEN "config"
        ELSE IF has(<<"c","l","a","s","s"," ">>) THEN "class"
        ELSE IF has(<<"d","e","f"," ">>) \/ has(<<"f","u","n","c","t","i","o",
            "n"," ">>) THEN "function"
        ELSE IF has(<<"i","n","t","e","r","f","a","c","e"," ">>) \/ has(<<"t",
            "y","p","e"," ">>) THEN "type"
        ELSE IF has(<<"r","o","u","t","e">>) \/ has(<<"e","n","d","p","o","i",
            "n","t">>) THEN "endpoint"
        ELSE IF has(<<"q","u","e","r","y">>) \/ has(<<"s","e","l","e","c",
            "t">>) THEN "query"
        ELSE "utility"

(***************************************************************************)
(* DocumentService._chunk_code (documents.py 108-188).                     *)
(***************************************************************************)
\* the definition-start regex of a language, as the set of its alternatives
\* (each "^literal"); the empty set stands for pattern = None
Pattern(language) ==
    IF language = "python"
    THEN {<<"d","e","f"," ">>, <<"c","l","a","s","s"," ">>, <<"a","s","y","n",
        "c"," ","d","e","f"," ">>}
    ELSE IF language \in {"javascript", "typescript"}
    THEN {<<"f","u","n","c","t","i","o","n"," ">>, <<"c","o","n","s","t",
        " ">>, <<"l","e","t"," ">>, <<"c","l","a","s","s"," ">>, <<"a","s",
        "y","n","c"," ">>}
    ELSE IF language = "go"
    THEN {<<"f","u","n","c"," ">>, <<"t","y","p","e"," ">>, <<"p","a","c","k",
        "a","g","e"," ">>}
    ELSE IF language = "rust"
    THEN {<<"f","n"," ">>, <<"s","t","r","u","c","t"," ">>, <<"e","n","u","m",
        " ">>, <<"i","m","p","l"," ">>}
    ELSE {}

\* re.match(pattern, s)
re_match(pattern, s) == \E p \in pattern : startswith(s, p)

CodeDraft(current_chunk, start_line, end_line, language) ==
    LET chunk_text == join(<<NL>>, current_chunk)
    IN  [text |-> chunk_text, start_line |-> start_line,
         end_line |-> end_line, language |-> language,
         intent |-> _detect_code_intent(chunk_text, language)]

ClosedEnd_AtDefinition(i) == i

\* end_line of a chunk closed by a definition starting on line i
ClosedEnd(i) == i - 1

\* one iteration of the for loop, for line number i
ChunkCodeStep(st, line, i, language) ==
    IF re_match(Pattern(language), strip(line)) /\ st.current_chunk # <<>>
    THEN [chunks |-> Append(st.chunks,
                            CodeDraft(st.current_chunk, st.start_line,
                                      ClosedEnd(i), language)),
          current_chunk |-> <<line>>,
          current_size |-> Len(line),
          start_line |-> i]
    ELSE [st EXCEPT !.current_chunk = Append(@, line),
                    !.current_size = @ + Len(line)]

RECURSIVE ChunkCodeLoop(_, _, _, _)
ChunkCodeLoop(lines, i, st, language) ==
    IF i > Len(lines) THEN st
    ELSE ChunkCodeLoop(lines, i + 1,
                       ChunkCodeStep(st, lines[i], i, language), language)

\* the first pass (lines 130-170)
CodeFirstPass(content, language, max_size, overlap) ==
    IF Pattern(language) # {}
    THEN LET lines == split(content, NL)
             st == ChunkCodeLoop(lines, 1, LoopStart, language)
         IN  IF st.current_chunk # <<>>
             THEN Append(st.chunks,
                         CodeDraft(st.current_chunk, st.start_line,
                                   Len(lines), language))
             ELSE st.chunks
    ELSE _chunk_text(content, max_size, overlap)

\* the second pass on one chunk (lines 175-186)
SplitLarge(chunk, max_size, overlap) ==
    IF Len(chunk.text) > max_size
    THEN LET sub_chunks == _chunk_text(chunk.text, max_size, overlap)
         IN  [k \in 1..Len(sub_chunks) |->
                 [text |-> sub_chunks[k].text,
                  start_line |-> chunk.start_line,
                  end_line |-> chunk.end_line,
                  language |-> chunk.language,
                  intent |-> chunk.intent]]
    ELSE <<chunk>>

RECURSIVE SecondPass(_, _, _)
SecondPass(chunks, max_size, overlap) ==
    IF chunks = <<>> THEN <<>>
    ELSE SplitLarge(Head(chunks), max_size, overlap)
         \o SecondPass(Tail(chunks), max_size, overlap)

_chunk_code(content, language, max_size, overlap) ==
    SecondPass(CodeFirstPass(content, language, max_size, overlap),
               max_size, overlap)

(***************************************************************************)
(* DocumentService._chunk_markdown (documents.py 211-277).                 *)
(***************************************************************************)
\* a whole line matched by  #+ .+  : hashes, one space, at least one character
IsHeadingLine(line) ==
    \E m \in 1..Len(line) :
        /\ \A j \in 1..m : line[j] = "#"
        /\ Len(line) >= m + 2
        /\ line[m + 1] = " "

RECURSIVE HeadingSplitFrom(_, _, _)
HeadingSplitFrom(lines, j, acc) ==
    IF j > Len(lines) THEN acc
    ELSE IF j < Len(lines) /\ IsHeadingLine(lines[j])
    THEN HeadingSplitFrom(lines, j + 1,
                          acc \o << lines[j] \o <<NL>>, <<>> >>)
    ELSE HeadingSplitFrom(lines, j + 1,
            [acc EXCEPT ![Len(acc)] =
                @ \o lines[j] \o (IF j < Len(lines) THEN <<NL>> ELSE <<>>)])

\* re.split(r'(^#+ .+$\n)', content, flags=re.MULTILINE): the text between
\* heading lines and the heading lines themselves (each with its newline)
HeadingSplit(content) == HeadingSplitFrom(split(content, NL), 1, << <<>> >>)

MdDraft(current_section) ==
    [text |-> join(<<>>, current_section), start_line |-> 1, end_line |-> 1,
     language |-> "markdown", intent |-> "section"]

\* "if current_section: ... if chunk_text.strip(): chunks.append(...)"
MdFlush(chunks, current_section) ==
    IF current_section # <<>> /\ strip(join(<<>>, current_section)) # <<>>
    THEN Append(chunks, MdDraft(current_section))
    ELSE chunks

\* one iteration of the for loop over the sections
ChunkMarkdownStep(st, section, max_size, overlap) ==
    IF startswith(section, <<"#">>)
    THEN [chunks |-> MdFlush(st.chunks, st.current_section),
          current_section |-> <<section>>,
          current_size |-> Len(section)]
    ELSE LET over == /\ st.current_size + Len(section) > max_size
                     /\ st.current_section # <<>>
             overlap_text == join(<<>>, NegSlice(st.current_section, overlap))
             st1 == IF over
                    THEN [chunks |-> MdFlush(st.chunks, st.current_section),
                          current_section |-> <<overlap_text>>,
                          current_size |-> Len(overlap_text)]
                    ELSE st
         IN  [st1 EXCEPT !.current_section = Append(@, section),
                         !.current_size = @ + Len(section)]

RECURSIVE ChunkMarkdownLoop(_, _, _, _, _)
ChunkMarkdownLoop(sections, j, st, max_size, overlap) ==
    IF j > Len(sections) THEN st
    ELSE ChunkMarkdownLoop(sections, j + 1,
                           ChunkMarkdownStep(st, sections[j], max_size,
                                             overlap),
                           max_size, overlap)

_chunk_markdown(content, max_size, overlap) ==
    LET st == ChunkMarkdownLoop(HeadingSplit(content), 1,
                                [chunks |-> <<>>, current_section |-> <<>>,
                                 current_size |-> 0],
                                max_size, overlap)
    IN  MdFlush(st.chunks, st.current_section)

(***************************************************************************)
(* DocumentService._chunk_content (documents.py 85-106), with the two      *)
(* settings it reads passed in.                                            *)
(***************************************************************************)
_chunk_content(content, content_type, language, max_size, overlap) ==
    IF content_type = "code"
    THEN _chunk_code(content, language, max_size, overlap)
    ELSE IF content_type = "markdown"
    THEN _chunk_markdown(content, max_size, overlap)
    ELSE _chunk_text(content, max_size, overlap)

(***************************************************************************)
(* compute_content_hash (embeddings.py 180-182).  SHA-256 is modelled by   *)
(* its contract: a digest that differs whenever the content differs.       *)
(***************************************************************************)
compute_content_hash(content) == <<"sha256", content>>

(***************************************************************************)
(* DocumentService._detect_content_type (documents.py 63-83).  A file path *)
(* is a str; Path(file_path) takes its name, stem and suffix from it as    *)
(* pathlib does on a POSIX system.                                         *)
(***************************************************************************)
\* Path(file_path).name: the last component of the path, empty and "."
\* components left out
Path_name(file_path) ==
    LET Last(parts) ==
            LET kept == {k \in 1..Len(parts) :
                            parts[k] # <<>> /\ parts[k] # <<".">>}
            IN  IF kept = {} THEN <<>>
                ELSE parts[CHOOSE k \in kept : \A j \in kept : j <= k]
    IN  Last(split(file_path, "/"))

\* where the suffix of a name begins: the last "." of the name when it is
\* neither its first nor its last character, else 0
SuffixAt(name) ==
    LET dots == {k \in 2..(Len(name) - 1) : name[k] = "."}
    IN  IF dots = {} \/ name[Len(name)] = "." THEN 0
        ELSE CHOOSE k \in dots : \A j \in dots : j <= k

\* Path(file_path).suffix (documents.py 65-66): the name from the position
\* SuffixAt gives, to its end
Path_suffix(file_path) ==
    LET Cut(name, at) ==
            IF at = 0 THEN <<>> ELSE SubSeq(name, at, Len(name))
        Of(name) == Cut(name, SuffixAt(name))
    IN  Of(Path_name(file_path))

\* Path(file_path).stem (documents.py 324, 333): the name before its suffix
Path_stem(file_path) ==
    LET Cut(name, at) ==
            IF at = 0 THEN name ELSE SubSeq(name, 1, at - 1)
        Of(name) == Cut(name, SuffixAt(name))
    IN  Of(Path_name(file_path))

\* DocumentService.LANGUAGE_MAP.get(ext, "plain") (documents.py 32-56)
LANGUAGE_MAP(ext) ==
    CASE ext = <<".","p","y">> -> "python"
      [] ext = <<".","j","s">> -> "javascript"
      [] ext = <<".","t","s">> -> "typescript"
      [] ext = <<".","j","s","x">> -> "javascript"
      [] ext = <<".","t","s","x">> -> "typescript"
      [] ext = <<".","j","s","o","n">> -> "json"
      [] ext = <<".","y","a","m","l">> -> "yaml"
      [] ext = <<".","y","m","l">> -> "yaml"
      [] ext = <<".","t","o","m","l">> -> "toml"
      [] ext = <<".","s","q","l">> -> "sql"
      [] ext = <<".","s","h">> -> "shell"
      [] ext = <<".","b","a","s","h">> -> "shell"
      [] ext = <<".","g","o">> -> "go"
      [] ext = <<".","r","s">> -> "rust"
      [] ext = <<".","j","a","v","a">> -> "java"
      [] ext = <<".","c">> -> "c"
      [] ext = <<".","c","p","p">> -> "cpp"
      [] ext = <<".","h">> -> "c"
      [] ext = <<".","h","t","m","l">> -> "html"
      [] ext = <<".","c","s","s">> -> "css"
      [] ext = <<".","s","c","s","s">> -> "scss"
      [] ext = <<".","m","d">> -> "markdown"
      [] ext = <<".","t","x","t">> -> "plain"
      [] OTHER -> "plain"

\* the backquote character (the lexer of TLA+ reserves it, so it gets a name)
Backquote == "backquote"

Fence == <<Backquote, Backquote, Backquote>>

\* the least index k >= from at which p occurs in s, or 0 when there is none
Find(s, p, from) ==
    LET hits == {k \in from..(Len(s) - Len(p) + 1) :
                    SubSeq(s, k, k + Len(p) - 1) = p}
    IN  IF hits = {} THEN 0 ELSE CHOOSE k \in hits : \A j \in hits : k <= j

RECURSIVE CountFenced(_, _)
\* len(re.findall(r'(fence)[\s\S]*?(fence)', content)), scanning from index
\* from, where (fence) is three backquotes
CountFenced(content, from) ==
    LET open == Find(content, Fence, from)
        close == Find(content, Fence, open + 3)
    IN  IF open = 0 \/ close = 0 THEN 0
        ELSE 1 + CountFenced(content, close + 3)

_detect_content_type(file_path, content) ==
    LET Detect(ext) ==
            LET language == LANGUAGE_MAP(ext)
            IN  IF ext = <<".","m","d">>
                THEN IF CountFenced(content, 1) > 2
                     THEN [content_type |-> "code", language |-> language]
                     ELSE [content_type |-> "markdown", language |-> language]
                ELSE IF ext \in {<<".","p","y">>, <<".","j","s">>, <<".","t",
                    "s">>, <<".","g","o">>, <<".","r","s">>, <<".","j","a",
                    "v","a">>,
                                 <<".","s","q","l">>, <<".","s","h">>}
                THEN [content_type |-> "code", language |-> language]
                ELSE IF ext \in {<<".","j","s","o","n">>, <<".","y","a","m",
                    "l">>, <<".","t","o","m","l">>}
                THEN [content_type |-> "code", language |-> language]
                ELSE [content_type |-> "plain", language |-> language]
    IN  Detect(lower(Path_suffix(file_path)))

(***************************************************************************)
(* Resting values of the variables a study does not use.                   *)
(***************************************************************************)
ChunkIdle == chunkIn = NoCall /\ chunkOut = NoCall

SearchIdle == searchIn = NoCall /\ searchOut = NoCall

\* no concurrent call is in flight
NoCalls == <<>>

StoreIdle ==
    /\ settings = [max_chunk_size |-> DefaultMaxChunkSize,
                   chunk_overlap |-> DefaultChunkOverlap]
    /\ documents = {}
    /\ snippets = {}
    /\ sqlite_sequence = [documents |-> 0, code_snippets |-> 0]
    /\ collection = <<>>
    /\ last = NoCall
    /\ calls = NoCalls

(***************************************************************************)
(* The chunker study: every chunker applied to every generated content,    *)
(* for small and default values of max_size and overlap.                   *)
(***************************************************************************)
\* the lines contents are generated from: empty, short, longer, a Rust
\* definition start, a markdown heading
LineVocab == {<<>>, <<"a">>, <<"b","c">>, <<"f","n"," ","x">>, <<"#"," ",
    "a">>}

Contents ==
    {join(<<NL>>, ls) : ls \in UNION {[1..n -> LineVocab] : n \in 1..MaxLines}}

\* "def foo():\n    return 1\n\ndef bar():\n    return 2\n"
ExampleContent ==
    <<"d","e","f"," ","f","o","o","(",")",":">> \o <<NL>> \o <<" "," "," ",
        " ","r","e","t","u","r","n"," ","1">> \o <<NL>> \o <<NL>>
    \o <<"d","e","f"," ","b","a","r","(",")",":">> \o <<NL>> \o <<" "," "," ",
        " ","r","e","t","u","r","n"," ","2">> \o <<NL>>

MaxSizes == (1..MaxSizeBound) \cup {DefaultMaxChunkSize}
Overlaps == (0..MaxOverlapBound) \cup {DefaultChunkOverlap}
ChunkLanguages == {"python", "rust", "json"}

InitChunk ==
    /\ chunkIn \in [content : Contents \cup {ExampleContent},
                    max_size : MaxSizes, overlap : Overlaps]
    /\ chunkOut = NoCall
    /\ StoreIdle
    /\ SearchIdle

ChunkText ==
    /\ chunkOut = NoCall
    /\ chunkOut' = [op |-> "_chunk_text", language |-> "plain",
                    chunks |-> _chunk_text(chunkIn.content, chunkIn.max_size,
                                           chunkIn.overlap)]
    /\ UNCHANGED <<chunkIn, storeVars, searchVars>>

ChunkMarkdown ==
    /\ chunkOut = NoCall
    /\ chunkOut' = [op |-> "_chunk_markdown", language |-> "markdown",
                    chunks |-> _chunk_markdown(chunkIn.content,
                                               chunkIn.max_size,
                                               chunkIn.overlap)]
    /\ UNCHANGED <<chunkIn, storeVars, searchVars>>

ChunkCode(language) ==
    /\ chunkOut = NoCall
    /\ chunkOut' = [op |-> "_chunk_code", language |-> language,
                    chunks |-> _chunk_code(chunkIn.content, language,
                                           chunkIn.max_size, chunkIn.overlap)]
    /\ UNCHANGED <<chunkIn, storeVars, searchVars>>

NextChunk ==
    \/ ChunkText
    \/ ChunkMarkdown
    \/ \E language \in ChunkLanguages : ChunkCode(language)

SpecChunk == InitChunk /\ [][NextChunk]_vars

(***************************************************************************)
(* The classification study: DocumentService._detect_content_type applied  *)
(* to paths of every mapped extension, some unmapped ones, and contents    *)
(* with up to MaxBlocks fenced code blocks.                                *)
(***************************************************************************)
MaxBlocks == 4

\* the keys of LANGUAGE_MAP (documents.py 32-56)
MappedExtensions ==
    {<<".","p","y">>, <<".","j","s">>, <<".","t","s">>, <<".","j","s","x">>,
        <<".","t","s","x">>, <<".","j","s","o","n">>, <<".","y","a","m","l">>,
        <<".","y","m","l">>,
     <<".","t","o","m","l">>, <<".","s","q","l">>, <<".","s","h">>, <<".","b",
         "a","s","h">>, <<".","g","o">>, <<".","r","s">>, <<".","j","a","v",
         "a">>, <<".","c">>, <<".","c","p","p">>,
     <<".","h">>, <<".","h","t","m","l">>, <<".","c","s","s">>, <<".","s","c",
         "s","s">>, <<".","m","d">>, <<".","t","x","t">>}

\* the suffixes of the paths: mapped ones, upper-case ones, an unmapped
\* one, and none
Suffixes == MappedExtensions \cup {<<".","P","Y">>, <<".","M","D">>, <<".",
    "Y","a","m","l">>, <<".","x","y","z">>, <<>>}

RECURSIVE FencedContent(_)
\* a text with n closed fenced blocks
FencedContent(n) ==
    IF n = 0 THEN <<"t">>
    ELSE FencedContent(n - 1) \o Fence \o <<"x", NL>> \o Fence \o <<NL, "t">>

\* texts with 0..MaxBlocks closed blocks, and each with one more fence that
\* is never closed
ClassifyContents ==
    {FencedContent(n) : n \in 0..MaxBlocks}
    \cup {FencedContent(n) \o Fence \o <<"y">> : n \in 0..MaxBlocks}

InitClassify ==
    /\ StoreIdle
    /\ SearchIdle
    /\ chunkIn \in [op : {"_detect_content_type"},
                    file_path : {<<"d","/","a">> \o s : s \in Suffixes},
                    content : ClassifyContents]
    /\ chunkOut = NoCall

\* DocumentService._detect_content_type(file_path, content)
DetectContentType ==
    /\ chunkIn.op = "_detect_content_type"
    /\ chunkOut = NoCall
    /\ chunkOut' = [op |-> "_detect_content_type"] @@
                   _detect_content_type(chunkIn.file_path, chunkIn.content)
    /\ UNCHANGED <<chunkIn, storeVars, searchVars>>

NextClassify == DetectContentType

SpecClassify == InitClassify /\ [][NextClassify]_vars

(***************************************************************************)
(* The stores.  st = [documents, snippets, sqlite_sequence, collection]:   *)
(* the two SQLite tables with their AUTOINCREMENT counters (database.py)   *)
(* and the ChromaDB collection (embeddings.py).  Every Database method     *)
(* commits on its own connection (get_conn, database.py 25-36), so each    *)
(* call below takes effect at once and is never undone by a later failure. *)
(* Of a documents row the columns id, file_path, content_hash, title,      *)
(* content_type, language, summary, tags and category are kept.  The tags  *)
(* column holds NULL, written <<>>, or the JSON text of a list of tags,    *)
(* written <<list>>.                                                       *)
(***************************************************************************)
\* the id of a new row of an INTEGER PRIMARY KEY AUTOINCREMENT table
\* (database.py 46, 63): one more than the largest id the table ever held
NextRowId(rows, seq) == seq + 1

\* a lookup that finds no row
get_document_by_path_Missing(st, file_path) == {}

\* Database.get_document_by_path (database.py 165-173): the rows found
get_document_by_path(st, file_path) ==
    {d \in st.documents : d.file_path = file_path}

insert_document_NoUnique(st, file_path, content_hash, title, content_type, language, summary, tags, category) ==
    LET id == NextRowId(st.documents, st.sqlite_sequence.documents)
    IN  [st |-> [st EXCEPT
                    !.documents = @ \cup {[id |-> id,
                                           file_path |-> file_path,
                                           content_hash |-> content_hash,
                                           title |-> title,
                                           content_type |-> content_type,
                                           language |-> language,
                                           summary |-> summary,
                                           tags |-> IF tags = <<>> THEN <<>>
                                                    ELSE <<tags>>,
                                           category |-> category]},
                    !.sqlite_sequence.documents = id],
         raised |-> FALSE, lastrowid |-> id]

\* Database.insert_document (database.py 112-143); file_path is UNIQUE
\* (database.py 47), so a second row for a path raises
insert_document(st, file_path, content_hash, title, content_type, language, summary, tags, category) ==
    IF \E d \in st.documents : d.file_path = file_path
    THEN [st |-> st, raised |-> TRUE, lastrowid |-> 0]
    ELSE LET id == NextRowId(st.documents, st.sqlite_sequence.documents)
         IN  [st |-> [st EXCEPT
                        !.documents = @ \cup {[id |-> id,
                                               file_path |-> file_path,
                                               content_hash |-> content_hash,
                                               title |-> title,
                                               content_type |-> content_type,
                                               language |-> language,
                                               summary |-> summary,
                                               tags |-> IF tags = <<>>
                                                        THEN <<>>
                                                        ELSE <<tags>>,
                                               category |-> category]},
                        !.sqlite_sequence.documents = id],
              raised |-> FALSE, lastrowid |-> id]

\* Database.insert_snippet (database.py 269-298)
insert_snippet(st, document_id, chunk) ==
    LET id == NextRowId(st.snippets, st.sqlite_sequence.code_snippets)
    IN  [st EXCEPT
            !.snippets = @ \cup {[id |-> id, document_id |-> document_id,
                                  chunk_text |-> chunk.text,
                                  start_line |-> chunk.start_line,
                                  end_line |-> chunk.end_line,
                                  language |-> chunk.language,
                                  intent |-> chunk.intent]},
            !.sqlite_sequence.code_snippets = id]

\* Database.get_snippets_by_document (database.py 300-307)
get_snippets_by_document(st, document_id) ==
    {s \in st.snippets : s.document_id = document_id}

\* Database.delete_snippets_by_document (database.py 309-316)
delete_snippets_by_document(st, document_id) ==
    [st EXCEPT !.snippets = {s \in @ : s.document_id # document_id}]

Database_update_document_Rewrite(st, doc_id, title, summary, tags, category) ==
    [st |-> [st EXCEPT !.documents =
                {IF d.id # doc_id THEN d
                 ELSE [d EXCEPT !.language = None] : d \in @}],
     ret |-> \E d \in st.documents : d.id = doc_id]

\* Database.update_document (database.py 175-211).  Each argument is an
\* Optional: <<>> for None, <<v>> for the value v.  Only the arguments that
\* are not None are written; with none of them nothing is, and the answer
\* is False.
Database_update_document(st, doc_id, title, summary, tags, category) ==
    IF title = <<>> /\ summary = <<>> /\ tags = <<>> /\ category = <<>>
    THEN [st |-> st, ret |-> FALSE]
    ELSE [st |-> [st EXCEPT !.documents =
                    {IF d.id # doc_id THEN d
                     ELSE [d EXCEPT
                            !.title = IF title = <<>> THEN @ ELSE title[1],
                            !.summary = IF summary = <<>> THEN @
                                        ELSE summary[1],
                            !.tags = IF tags = <<>> THEN @ ELSE <<tags[1]>>,
                            !.category = IF category = <<>> THEN @
                                         ELSE category[1]] : d \in @}],
          ret |-> \E d \in st.documents : d.id = doc_id]

\* Database.delete_document (database.py 213-218): the rows left and whether
\* a row was deleted.  Foreign keys are not switched on for the connection
\* (database.py 19-23), so ON DELETE CASCADE deletes nothing here.
Database_delete_document(st, doc_id) ==
    [st |-> [st EXCEPT !.documents = {d \in @ : d.id # doc_id}],
     ret |-> \E d \in st.documents : d.id = doc_id]

\* the id of the embedding of chunk i of a document: f"doc_{doc_id}_chunk_{i}"
EmbeddingId(doc_id, i) == <<"doc", doc_id, "chunk", i>>

\* collection.upsert (embeddings.py 86-91)
Upsert(coll, id, record) ==
    [k \in (DOMAIN coll) \cup {id} |-> IF k = id THEN record ELSE coll[k]]

RECURSIVE IndexFrom(_, _, _, _, _)
IndexFrom(coll, doc_id, chunks, metadata, i) ==
    IF i >= Len(chunks) THEN coll
    ELSE IndexFrom(Upsert(coll, EmbeddingId(doc_id, i),
                          [document |-> chunks[i + 1],
                           metadata |-> [file_path |-> metadata.file_path,
                                         language |-> metadata.language,
                                         intent |-> metadata.intent,
                                         doc_id |-> doc_id,
                                         chunk_index |-> i]]),
                   doc_id, chunks, metadata, i + 1)

\* EmbeddingService.index_document (embeddings.py 63-94): chunk i of the
\* list it is given is stored under EmbeddingId(doc_id, i)
index_document(coll, doc_id, chunks, metadata) ==
    IndexFrom(coll, doc_id, chunks, metadata, 0)

\* the items chromadb accepts in the include argument of Collection.get;
\* it raises ValueError for a list that holds any other item
IncludeItems == {"embeddings", "documents", "metadatas", "uris", "data"}

\* self.collection.get(where={"doc_id": doc_id}, include=include)
\* (embeddings.py 141-144): the include list is validated before the
\* records are looked at; ids are the ids of the records of the document
collection_get(coll, doc_id, include) ==
    IF include \subseteq IncludeItems
    THEN [raised |-> FALSE,
          ids |-> {k \in DOMAIN coll : coll[k].metadata.doc_id = doc_id}]
    ELSE [raised |-> TRUE, ids |-> {}]

\* self.collection.delete(ids=ids) (embeddings.py 147)
collection_delete(coll, ids) == [k \in (DOMAIN coll) \ ids |-> coll[k]]

\* EmbeddingService.delete_document (embeddings.py 138-149): the ids are
\* asked for with include=["ids"], then deleted when there are any.  "ids"
\* is not an item of IncludeItems, so the get raises ValueError and the
\* collection stays as it is.
EmbeddingService_delete_document(coll, doc_id) ==
    LET Delete(results) ==
            IF results.raised THEN [coll |-> coll, raised |-> TRUE]
            ELSE IF results.ids # {}
            THEN [coll |-> collection_delete(coll, results.ids),
                  raised |-> FALSE]
            ELSE [coll |-> coll, raised |-> FALSE]
    IN  Delete(collection_get(coll, doc_id, {"ids"}))

\* DocumentService.delete_document (documents.py 472-481): an exception of
\* the embedding service leaves before the snippets and the row are
\* deleted; ret is the answer when the call returns
DocumentService_delete_document(st, doc_id) ==
    LET Rows(st1) ==
            Database_delete_document(delete_snippets_by_document(st1, doc_id),
                                     doc_id)
        Returning(r) == [st |-> r.st, ret |-> r.ret, raised |-> FALSE]
        Rest(deleted) ==
            IF deleted.raised
            THEN [st |-> st, ret |-> FALSE, raised |-> TRUE]
            ELSE Returning(Rows([st EXCEPT !.collection = deleted.coll]))
    IN  Rest(EmbeddingService_delete_document(st.collection, doc_id))

\* DocumentService.get_document (documents.py 410-452): the row and its
\* snippets; a missing row raises ValueError
get_document(st, doc_id) ==
    LET found == {d \in st.documents : d.id = doc_id}
    IN  IF found = {} THEN [raised |-> TRUE]
        ELSE [raised |-> FALSE,
              document |-> CHOOSE d \in found : TRUE,
              snippets |-> get_snippets_by_document(st, doc_id)]

\* DocumentService.update_document (documents.py 454-470): the answer is
\* that of get_document, which raises ValueError for a missing row
DocumentService_update_document(st, doc_id, title, summary, tags, category) ==
    LET updated == Database_update_document(st, doc_id, title, summary, tags,
                                            category)
        found == {d \in updated.st.documents : d.id = doc_id}
    IN  [st |-> updated.st, raised |-> found = {},
         ret |-> get_document(updated.st, doc_id)]

(***************************************************************************)
(* DocumentService.create_document (documents.py 335-408).  fault names    *)
(* the collaborator call that raises during this call, if any: the         *)
(* insert_snippet or the index_document of the chunk with that ordinal.    *)
(* The result: the stores, whether the call raised, what it returned, how  *)
(* many index_document calls it completed, the id of the document it       *)
(* deleted to re-index (0 when none), and the call that raised.  The       *)
(* delete_document of a path whose content changed (documents.py 348) is   *)
(* not caught: when it raises, create_document raises with it.             *)
(***************************************************************************)
NoFault == [at |-> "nowhere", chunk |-> 0]

\* Python truthiness of an optional str
Truthy(x) == x # None /\ x # ""

RECURSIVE IngestChunks(_, _, _, _, _, _)
\* the loop over the chunks (documents.py 386-406), from chunk k on
IngestChunks(st, doc_id, file_path, chunks, k, fault) ==
    IF k > Len(chunks)
    THEN [st |-> st, raised |-> FALSE, submitted |-> k - 1]
    ELSE IF fault = [at |-> "insert_snippet", chunk |-> k]
    THEN [st |-> st, raised |-> TRUE, submitted |-> k - 1]
    ELSE LET st1 == insert_snippet(st, doc_id, chunks[k])
         IN  IF fault = [at |-> "index_document", chunk |-> k]
             THEN [st |-> st1, raised |-> TRUE, submitted |-> k - 1]
             ELSE IngestChunks(
                    [st1 EXCEPT !.collection =
                        index_document(@, doc_id, <<chunks[k].text>>,
                                       [file_path |-> file_path,
                                        language |-> chunks[k].language,
                                        intent |-> chunks[k].intent])],
                    doc_id, file_path, chunks, k + 1, fault)

\* the positions g at which group 1 of r'^#\s+(.+)$' can begin when the
\* match begins at p: "#" opens a line at p, whitespace (line ends
\* included) fills p+1 .. g-1, and a character other than a line end is at g
TitleStarts(content, p) ==
    {g \in (p + 2)..Len(content) :
        /\ p = 1 \/ content[p - 1] = NL
        /\ content[p] = "#"
        /\ \A k \in (p + 1)..(g - 1) : content[k] \in Whitespace
        /\ content[g] # NL}

\* the last position of the line that holds position g
LineEnd(content, g) ==
    CHOOSE e \in g..Len(content) :
        /\ \A k \in g..e : content[k] # NL
        /\ e = Len(content) \/ content[e + 1] = NL

\* re.search(r'^#\s+(.+)$', content, re.MULTILINE) (documents.py 328): the
\* leftmost match, \s+ taking as much as it can; <<>> for no match, else
\* <<group 1>>
HeadingSearch(content) ==
    LET ps == {p \in 1..Len(content) : TitleStarts(content, p) # {}}
        p == CHOOSE q \in ps : \A r \in ps : q <= r
        gs == TitleStarts(content, p)
        g == CHOOSE h \in gs : \A r \in gs : r <= h
    IN  IF ps = {} THEN <<>>
        ELSE <<SubSeq(content, g, LineEnd(content, g))>>

\* DocumentService._extract_title (documents.py 322-333)
_extract_title(file_path, content) ==
    IF Path_suffix(file_path) = <<".","m",
        "d">> /\ HeadingSearch(content) # <<>>
    THEN strip(HeadingSearch(content)[1])
    ELSE str_title(replace(replace(Path_stem(file_path), "_", " "), "-", " "))

SameHash_Never(stored, computed) == FALSE

\* existing["content_hash"] == content_hash (documents.py 343)
SameHash(stored, computed) == stored = computed

create_document(st, cfg, document, categorization, fault) ==
    LET content_hash == compute_content_hash(document.content)
        existing == get_document_by_path(st, document.file_path)
        old == CHOOSE d \in existing : TRUE
        Store(st0, replaced) ==
            LET detected == _detect_content_type(document.file_path,
                                                 document.content)
                content_type == IF document.content_type # None
                                THEN document.content_type
                                ELSE detected.content_type
                language == IF Truthy(document.language)
                            THEN document.language
                            ELSE detected.language
                title == IF document.title # <<>> THEN document.title
                         ELSE _extract_title(document.file_path,
                                             document.content)
                inserted == insert_document(st0, document.file_path,
                                            content_hash, title, content_type,
                                            IF Truthy(language) THEN language
                                            ELSE categorization.language,
                                            categorization.summary,
                                            categorization.tags,
                                            categorization.category)
                doc_id == inserted.lastrowid
                chunks == _chunk_content(document.content, content_type,
                                         IF Truthy(language) THEN language
                                         ELSE "plain",
                                         cfg.max_chunk_size, cfg.chunk_overlap)
                done == IngestChunks(inserted.st, doc_id, document.file_path,
                                     chunks, 1, fault)
            IN  IF inserted.raised
                THEN [st |-> st0, raised |-> TRUE, ret |-> [raised |-> TRUE],
                      submitted |-> 0, replaced |-> replaced,
                      error |-> "insert_document"]
                ELSE IF done.raised
                THEN [st |-> done.st, raised |-> TRUE,
                      ret |-> [raised |-> TRUE],
                      submitted |-> done.submitted, replaced |-> replaced,
                      error |-> fault.at]
                ELSE [st |-> done.st, raised |-> FALSE,
                      ret |-> get_document(done.st, doc_id),
                      submitted |-> done.submitted, replaced |-> replaced,
                      error |-> "none"]
        AfterDelete(deleted, replaced) ==
            IF deleted.raised
            THEN [st |-> st, raised |-> TRUE, ret |-> [raised |-> TRUE],
                  submitted |-> 0, replaced |-> 0,
                  error |-> "collection.get"]
            ELSE Store(deleted.st, replaced)
    IN  IF existing # {} /\ SameHash(old.content_hash, content_hash)
        THEN [st |-> st, raised |-> get_document(st, old.id).raised,
              ret |-> get_document(st, old.id), submitted |-> 0,
              replaced |-> 0, error |-> "get_document"]
        ELSE AfterDelete(IF existing # {}
                         THEN DocumentService_delete_document(st, old.id)
                         ELSE [st |-> st, ret |-> FALSE, raised |-> FALSE],
                         IF existing # {} THEN old.id ELSE 0)

(***************************************************************************)
(* The ingestion study: paths are ingested, ingested again and deleted,    *)
(* one call at a time.                                                     *)
(***************************************************************************)
MaxFaultChunk == 2   \* faults are injected at chunk ordinals 1..MaxFaultChunk

Paths == {<<"m",".","r","s">>, <<"n",".","t","x","t">>}

StoreContents == {<<"a">>,
                  <<"a">> \o <<NL>> \o <<"b","c">> \o <<NL>> \o <<"f","n"," ",
                      "x">>,
                  <<"f","n"," ","x">> \o <<NL>> \o <<"f","n"," ","y">>}

\* a request without title, content_type or language; a title is a str,
\* <<>> for both None and "", which "or" takes alike
Request(file_path, content) ==
    [file_path |-> file_path, content |-> content, title |-> <<>>,
     content_type |-> None, language |-> None]

Requests == {Request(p, c) : p \in Paths, c \in StoreContents}

\* what CategorizerService.categorize (categorizer.py 63-96) answers for a
\* content: the choice of the language model behind it
Uncategorized ==
    [category |-> "other", tags |-> <<>>, summary |-> <<"a">>,
        language |-> None]

Categorizations ==
    {Uncategorized,
     [category |-> "api", tags |-> <<"x">>, summary |-> <<"b">>,
      language |-> "rust"]}

Faults == {NoFault} \cup [at : {"insert_snippet", "index_document"},
                          chunk : 1..MaxFaultChunk]

StoreSettings == {[max_chunk_size |-> MaxSizeBound, chunk_overlap |-> 1],
                  [max_chunk_size |-> DefaultMaxChunkSize,
                   chunk_overlap |-> DefaultChunkOverlap]}

Stores == [documents |-> documents, snippets |-> snippets,
           sqlite_sequence |-> sqlite_sequence, collection |-> collection]

Init ==
    /\ settings \in StoreSettings
    /\ documents = {}
    /\ snippets = {}
    /\ sqlite_sequence = [documents |-> 0, code_snippets |-> 0]
    /\ collection = <<>>
    /\ last = NoCall
    /\ calls = NoCalls
    /\ ChunkIdle
    /\ SearchIdle

SetStores(st) ==
    /\ documents' = st.documents
    /\ snippets' = st.snippets
    /\ sqlite_sequence' = st.sqlite_sequence
    /\ collection' = st.collection

\* POST /documents -> DocumentService.create_document
CreateDocument(document, categorization, fault) ==
    \E r \in {create_document(Stores, settings, document, categorization,
                              fault)} :
        /\ r.st.sqlite_sequence.documents <= MaxDocs
        /\ SetStores(r.st)
        /\ last' = [op |-> "create_document", document |-> document,
                    doc_id |-> 0, raised |-> r.raised, ret |-> r.ret,
                    submitted |-> r.submitted, replaced |-> r.replaced,
                    error |-> IF r.raised THEN r.error ELSE "none",
                    repeat |-> /\ last.op = "create_document"
                               /\ last.document.file_path = document.file_path
                               /\ last.document.content = document.content]
        /\ UNCHANGED <<settings, calls, chunkVars, searchVars>>

\* delete_document (routers/documents.py 132-143): a ValueError of the
\* service is answered with 404; a false answer raises HTTPException(404)
\* inside the try, where "except Exception" catches it and raises
\* HTTPException(500) in its place.  returned tells whether the service
\* returned, ret what it returned.
delete_document(st, doc_id) ==
    LET Answer(r) ==
            [st |-> r.st, returned |-> ~r.raised, ret |-> r.ret,
             status |-> IF r.raised THEN 404
                        ELSE IF r.ret THEN 204 ELSE 500]
    IN  Answer(DocumentService_delete_document(st, doc_id))

\* DELETE /documents/{doc_id}
DeleteDocument(doc_id) ==
    \E r \in {delete_document(Stores, doc_id)} :
        /\ SetStores(r.st)
        /\ last' = [op |-> "delete_document", document |-> None,
                    doc_id |-> doc_id, raised |-> r.status # 204,
                    returned |-> r.returned, ret |-> r.ret,
                    submitted |-> 0, replaced |-> 0, repeat |-> FALSE,
                    status |-> r.status]
        /\ UNCHANGED <<settings, calls, chunkVars, searchVars>>

Next ==
    \/ \E document \in Requests, fault \in Faults :
            CreateDocument(document, Uncategorized, fault)
    \/ \E doc_id \in 1..MaxDocs : DeleteDocument(doc_id)

Spec == Init /\ [][Next]_vars

(***************************************************************************)
(* CategorizerService (services/categorizer.py).  The regular expressions  *)
(* of _detect_language are searched with re.IGNORECASE and without         *)
(* re.MULTILINE or re.DOTALL: "^" is the start of the content and "."      *)
(* is any character but a line end.                                        *)
(***************************************************************************)
CATEGORIES ==
    <<"documentation", "configuration", "api", "database", "testing",
      "deployment", "authentication", "utilities", "models", "views",
      "controllers", "services", "middleware", "other">>

Digits == {"0", "1", "2", "3", "4", "5", "6", "7", "8", "9"}
\* [a-z] under re.IGNORECASE
Letters == {UpperChars[k] : k \in 1..26} \cup {LowerChars[k] : k \in 1..26}

\* \w of a str pattern: [A-Za-z0-9_] and the alphanumeric characters
\* above U+007F (the cased ones, U+00B2, U+00B3, U+00B9, U+00BC..U+00BE,
\* U+0178, U+039C, U+03BC)
WordChars ==
    {UpperChars[k] : k \in DOMAIN UpperChars}
        \cup {LowerChars[k] : k \in DOMAIN LowerChars}
        \cup Digits \cup {"_"}
        \cup {"ª", "µ", "º", "ß", "ÿ"}
        \cup {"²", "³", "¹", "¼", "½", "¾"}
        \cup {GreekCapitalMu, CapitalYDiaeresis, GreekSmallMu}

\* re.search(literal, s, re.IGNORECASE)
isearch(s, literal) == contains(lower(s), lower(literal))

\* re.search(open + ".*" + close, s, re.IGNORECASE)
SearchGap(s, open, close) ==
    LET ls == lower(s)
        opens == {i \in 1..(Len(s) - Len(open) + 1) :
                    SubSeq(ls, i, i + Len(open) - 1) = lower(open)}
        closes == {j \in 1..(Len(s) - Len(close) + 1) :
                    SubSeq(ls, j, j + Len(close) - 1) = lower(close)}
    IN  \E i \in opens, j \in closes :
            /\ j >= i + Len(open)
            /\ \A k \in (i + Len(open))..(j - 1) : s[k] # NL

\* ^\w+:\s*$
YamlKey(s) ==
    \E n \in 1..(Len(s) - 1) :
        /\ \A k \in 1..n : s[k] \in WordChars
        /\ s[n + 1] = ":"
        /\ \A k \in (n + 2)..Len(s) : s[k] \in Whitespace

\* ^\s+-\s+\w
YamlItem(s) ==
    \E a \in 1..Len(s), b \in 1..Len(s) :
        /\ \A k \in 1..a : s[k] \in Whitespace
        /\ a + 2 <= b /\ b + 1 <= Len(s)
        /\ s[a + 1] = "-"
        /\ \A k \in (a + 2)..b : s[k] \in Whitespace
        /\ s[b + 1] \in WordChars

\* ^\s*c for a character c
LeadThen(s, c) ==
    \E i \in 1..Len(s) : s[i] = c /\ \A k \in 1..(i - 1) : s[k] \in Whitespace

\* "[^"]+"\s*:
JsonKey(s) ==
    \E i \in 1..Len(s), j \in 1..Len(s), c \in 1..Len(s) :
        /\ s[i] = "\"" /\ s[j] = "\"" /\ i + 2 <= j /\ j < c
        /\ \A k \in (i + 1)..(j - 1) : s[k] # "\""
        /\ s[c] = ":"
        /\ \A k \in (j + 1)..(c - 1) : s[k] \in Whitespace

\* \{[^}]*:[^}]*;
CssRule(s) ==
    \E i \in 1..Len(s), j \in 1..Len(s), c \in 1..Len(s) :
        /\ i < j /\ j < c
        /\ s[i] = "{" /\ s[j] = ":" /\ s[c] = ";"
        /\ \A k \in (i + 1)..(c - 1) : s[k] # "}"

\* \.[a-z-]+\s*\{
CssClass(s) ==
    \E i \in 1..Len(s), j \in 1..Len(s), c \in 1..Len(s) :
        /\ i < j /\ j < c
        /\ s[i] = "." /\ s[c] = "{"
        /\ \A k \in (i + 1)..j : s[k] \in Letters \cup {"-"}
        /\ \A k \in (j + 1)..(c - 1) : s[k] \in Whitespace

\* the patterns of each language, in the order of the dict, each with
\* whether it is found in the content (categorizer.py 152-165)
LanguagePatterns(s) ==
    <<[lang |-> "python",
       found |-> <<isearch(s, <<"d","e","f"," ">>), isearch(s, <<"i","m","p",
           "o","r","t"," ">>),
                   SearchGap(s, <<"f","r","o","m"," ">>, <<" ","i","m","p",
                       "o","r","t">>),
                   SearchGap(s, <<"c","l","a","s","s"," ">>, <<":">>),
                       isearch(s, <<"i","f"," ","_","_","n","a","m","e","_",
                       "_">>)>>],
      [lang |-> "javascript",
       found |-> <<isearch(s, <<"c","o","n","s","t"," ">>), isearch(s, <<"l",
           "e","t"," ">>),
                   isearch(s, <<"f","u","n","c","t","i","o","n"," ">>),
                       isearch(s, <<"=",">">>),
                   isearch(s, <<"r","e","q","u","i","r","e","(">>)>>],
      [lang |-> "typescript",
       found |-> <<isearch(s, <<":"," ","s","t","r","i","n","g">>), isearch(s,
           <<":"," ","n","u","m","b","e","r">>),
                   isearch(s, <<"i","n","t","e","r","f","a","c","e"," ">>),
                       SearchGap(s, <<"t","y","p","e"," ">>, <<"=">>),
                   isearch(s, <<"<","T",">">>)>>],
      [lang |-> "java",
       found |-> <<isearch(s, <<"p","u","b","l","i","c"," ","c","l","a","s",
           "s">>), isearch(s, <<"p","r","i","v","a","t","e"," ">>),
                   isearch(s, <<"v","o","i","d"," ">>), isearch(s, <<"i","m",
                       "p","o","r","t"," ","j","a","v","a">>)>>],
      [lang |-> "go",
       found |-> <<isearch(s, <<"f","u","n","c"," ">>), isearch(s, <<"p","a",
           "c","k","a","g","e"," ">>),
                   isearch(s, <<"i","m","p","o","r","t"," ">>), isearch(s,
                       <<":","=">>)>>],
      [lang |-> "rust",
       found |-> <<isearch(s, <<"f","n"," ">>), isearch(s, <<"l","e","t"," ",
           "m","u","t">>),
                   isearch(s, <<"i","m","p","l"," ">>), isearch(s, <<"u","s",
                       "e"," ">>)>>],
      [lang |-> "sql",
       found |-> <<isearch(s, <<"S","E","L","E","C","T"," ">>), isearch(s,
           <<"F","R","O","M"," ">>),
                   isearch(s, <<"W","H","E","R","E"," ">>), isearch(s, <<"I",
                       "N","S","E","R","T"," ","I","N","T","O">>),
                   isearch(s, <<"C","R","E","A","T","E"," ","T","A","B","L",
                       "E">>)>>],
      [lang |-> "yaml",
       found |-> <<startswith(s, <<"-","-","-">>), YamlKey(s), YamlItem(s)>>],
      [lang |-> "json",
       found |-> <<LeadThen(s, "{"), LeadThen(s, "["), JsonKey(s)>>],
      [lang |-> "shell",
       found |-> <<isearch(s, <<"#","!","/","b","i","n","/","b","a","s",
           "h">>), isearch(s, <<"#","!","/","b","i","n","/","s","h">>),
                   isearch(s, <<"e","c","h","o"," ">>), isearch(s, <<"$",
                       "(">>)>>],
      [lang |-> "html",
       found |-> <<isearch(s, <<"<","h","t","m","l">>), isearch(s, <<"<","d",
           "i","v">>),
                   isearch(s, <<"<","s","p","a","n">>), isearch(s, <<"<","!",
                       "D","O","C","T","Y","P","E">>)>>],
      [lang |-> "css",
       found |-> <<CssRule(s), isearch(s, <<"@","m","e","d","i","a">>),
           CssClass(s)>>]>>

\* CategorizerService._detect_language (categorizer.py 147-172): the first
\* language with at least 2 of its patterns found, else None
_detect_language(content) ==
    LET First(patterns) ==
            LET hits == {n \in 1..Len(patterns) :
                            Cardinality({k \in 1..Len(patterns[n].found) :
                                            patterns[n].found[k]}) >= 2}
            IN  IF hits = {} THEN None
                ELSE patterns[CHOOSE n \in hits : \A o \in hits : n <= o].lang
    IN  First(LanguagePatterns(content))

\* any(kw in content_lower for kw in keywords)
AnyKeyword(content_lower, keywords) ==
    \E k \in 1..Len(keywords) : contains(content_lower, keywords[k])

\* the keyword chain (categorizer.py 106-122)
FallbackCategory(content_lower) ==
    IF AnyKeyword(content_lower, <<<<"t","e","s","t">>, <<"p","y","t","e","s",
        "t">>, <<"u","n","i","t","t","e","s","t">>, <<"s","p","e","c">>>>)
    THEN "testing"
    ELSE IF AnyKeyword(content_lower,
                       <<<<"c","o","n","f","i","g">>, <<"s","e","t","t","i",
                           "n","g","s">>, <<".","e","n","v">>, <<"y","a","m",
                           "l">>, <<"t","o","m","l">>>>)
    THEN "configuration"
    ELSE IF AnyKeyword(content_lower,
                       <<<<"d","e","f"," ">>, <<"c","l","a","s","s"," ">>,
                           <<"f","u","n","c","t","i","o","n">>, <<"a","s","y",
                           "n","c">>>>)
    THEN "utilities"
    ELSE IF AnyKeyword(content_lower,
                       <<<<"a","p","i">>, <<"e","n","d","p","o","i","n","t">>,
                           <<"r","o","u","t","e">>, <<"r","e","q","u","e","s",
                           "t">>, <<"r","e","s","p","o","n","s","e">>>>)
    THEN "api"
    ELSE IF AnyKeyword(content_lower,
                       <<<<"d","a","t","a","b","a","s","e">>, <<"s","q","l">>,
                           <<"q","u","e","r","y">>, <<"m","o","d","e","l">>,
                           <<"s","c","h","e","m","a">>>>)
    THEN "database"
    ELSE IF AnyKeyword(content_lower,
                       <<<<"d","e","p","l","o","y">>, <<"d","o","c","k","e",
                           "r">>, <<"k","u","b","e","r","n","e","t","e","s">>,
                           <<"c","i","/","c","d">>>>)
    THEN "deployment"
    ELSE IF AnyKeyword(content_lower,
                       <<<<"a","u","t","h">>, <<"l","o","g","i","n">>, <<"t",
                           "o","k","e","n">>, <<"j","w","t">>, <<"o","a","u",
                           "t","h">>>>)
    THEN "authentication"
    ELSE IF AnyKeyword(content_lower,
                       <<<<"r","e","a","d","m","e">>, <<"d","o","c">>, <<"g",
                           "u","i","d","e">>, <<"d","o","c","u","m","e","n",
                           "t","a","t","i","o","n">>>>)
    THEN "documentation"
    ELSE "other"

SummaryLen == 100

\* the first meaningful line, cut to 100 characters (categorizer.py 132-138)
FallbackSummary(content) ==
    LET lines == split(content, NL)
        stripped == [k \in 1..Len(lines) |-> strip(lines[k])]
        meaningful == {k \in 1..Len(lines) :
                        /\ stripped[k] # <<>>
                        /\ ~startswith(stripped[k], <<"#">>)
                        /\ ~startswith(stripped[k], <<"/","/">>)
                        /\ ~startswith(stripped[k], <<"<","!","-","-">>)}
    IN  IF meaningful = {} THEN <<>>
        ELSE LET line == stripped[CHOOSE k \in meaningful :
                                    \A j \in meaningful : k <= j]
             IN  SubSeq(line, 1, Min(SummaryLen, Len(line)))

\* CategorizerService._categorize_fallback (categorizer.py 98-145)
_categorize_fallback(content) ==
    LET Response(language, category) ==
            [category |-> category,
             tags |-> (IF language # None THEN <<language>> ELSE <<>>)
                      \o (IF category # "other" THEN <<category>> ELSE <<>>),
             summary |-> FallbackSummary(content),
             language |-> language]
    IN  Response(_detect_language(content), FallbackCategory(lower(content)))

(***************************************************************************)
(* categorize (categorizer.py 63-96).  answer is what the language-model   *)
(* collaborator does with the request: "unavailable" (no API key, no       *)
(* client), "raises" (the call raises), "no_json" (a text without braces), *)
(* "invalid_json" (json.loads raises), "invalid_fields" (the JSON object   *)
(* has values CategorizeResponse rejects), or "json" with the object data, *)
(* a dict written as a function on its keys.                               *)
(***************************************************************************)
\* except Exception (categorizer.py 92): what is raised in the try is caught
Caught_Never(kind) == FALSE

Caught(kind) == TRUE

\* dict.get(key, default)
Get(data, key, default) == IF key \in DOMAIN data THEN data[key] ELSE default

categorize(content, answer) ==
    IF answer.kind = "unavailable"
    THEN [raised |-> FALSE, ret |-> _categorize_fallback(content)]
    ELSE IF answer.kind \in {"raises", "invalid_json", "invalid_fields"}
    THEN IF Caught(answer.kind)
         THEN [raised |-> FALSE, ret |-> _categorize_fallback(content)]
         ELSE [raised |-> TRUE, ret |-> _categorize_fallback(content)]
    ELSE IF answer.kind = "no_json"
    THEN [raised |-> FALSE, ret |-> _categorize_fallback(content)]
    ELSE [raised |-> FALSE,
          ret |-> [category |-> Get(answer.data, "category", "other"),
                   tags |-> Get(answer.data, "tags", <<>>),
                   summary |-> Get(answer.data, "summary", <<>>),
                   language |-> Get(answer.data, "language", None)]]

(***************************************************************************)
(* The metadata study: ingests of code and markdown paths with empty,      *)
(* blank and ordinary contents, metadata updates, deletes and refreshes,   *)
(* one call at a time and without a failure of the database or of the      *)
(* embedding of a chunk.                                                   *)
(***************************************************************************)
MetaPaths == {<<"m",".","r","s">>, <<"n",".","m","d">>}

MetaContents == {<<>>, <<NL>>, <<"a">>, <<"#"," ","T">>}

MetaRequests == {Request(p, c) : p \in MetaPaths, c \in MetaContents}

\* DocumentUpdate (models.py 25-30): each field None, <<>>, or a value
Updates ==
    {[title |-> <<>>, summary |-> <<>>, tags |-> <<>>, category |-> <<>>],
     [title |-> <<>>, summary |-> <<>>, tags |-> << <<>> >>,
      category |-> <<>>],
     [title |-> <<<<"Z","z">>>>, summary |-> <<>>, tags |-> << <<"y">> >>,
      category |-> <<"api">>]}

InitMeta ==
    /\ StoreIdle
    /\ ChunkIdle
    /\ SearchIdle

\* PATCH /documents/{doc_id} -> DocumentService.update_document
UpdateDocument(doc_id, update) ==
    \E r \in {DocumentService_update_document(Stores, doc_id, update.title,
                                              update.summary, update.tags,
                                              update.category)} :
        /\ SetStores(r.st)
        /\ last' = [op |-> "update_document", document |-> None,
                    doc_id |-> doc_id, raised |-> r.raised, ret |-> r.ret,
                    submitted |-> 0, replaced |-> 0, repeat |-> FALSE,
                    update |-> update]
        /\ UNCHANGED <<settings, calls, chunkVars, searchVars>>

\* refresh_document (routers/documents.py 146-168): a ValueError, of
\* get_document for a missing id or of delete_document, is answered with
\* 404; when the delete returns, the handler raises the 400 it ends with
refresh_document(st, doc_id) ==
    LET Answer(r) == [st |-> r.st,
                       status |-> IF r.raised THEN 404 ELSE 400]
    IN  IF get_document(st, doc_id).raised
        THEN [st |-> st, status |-> 404]
        ELSE Answer(DocumentService_delete_document(st, doc_id))

\* POST /documents/{doc_id}/refresh
RefreshDocument(doc_id) ==
    \E r \in {refresh_document(Stores, doc_id)} :
        /\ SetStores(r.st)
        /\ last' = [op |-> "refresh_document", document |-> None,
                    doc_id |-> doc_id, raised |-> TRUE, ret |-> FALSE,
                    submitted |-> 0, replaced |-> 0, repeat |-> FALSE,
                    status |-> r.status]
        /\ UNCHANGED <<settings, calls, chunkVars, searchVars>>

NextMeta ==
    \/ \E document \in MetaRequests :
            CreateDocument(document, Uncategorized, NoFault)
    \/ \E doc_id \in 1..MaxDocs, update \in Updates :
            UpdateDocument(doc_id, update)
    \/ \E doc_id \in 1..MaxDocs : DeleteDocument(doc_id)
    \/ \E doc_id \in 1..MaxDocs : RefreshDocument(doc_id)

SpecMeta == InitMeta /\ [][NextMeta]_vars

(***************************************************************************)
(* The directory study: DocumentService.index_directory over the files a   *)
(* directory listing gives.  A file is [file_path, content, readable,      *)
(* categorization, fault]: file_path is str(file_path) of a file found     *)
(* under the directory, read_text raises for an unreadable one,            *)
(* categorization is what CategorizerService.categorize answers when the   *)
(* content of this file is ingested, and fault is where the stores fail    *)
(* during the ingest of this file.                                         *)
(***************************************************************************)
MaxFiles == 2

DirPaths == {<<"d","/","m",".","r","s">>, <<"d","/","n",".","t","x","t">>,
    <<"d","/","n",".","m","d">>}

DirContents == {<<" ">> \o <<NL>>, <<"a">>, <<"b"," ","c">>}

DirFaults == {NoFault, [at |-> "insert_snippet", chunk |-> 1],
              [at |-> "index_document", chunk |-> 1]}

\* the language model is not available during a directory ingest
NoAnswer == [kind |-> "unavailable", data |-> <<>>]

\* a file as the loop meets it (documents.py 511-525)
DirFile(file_path, content, readable, fault) ==
    [file_path |-> file_path, content |-> content, readable |-> readable,
     categorization |-> categorize(content, NoAnswer).ret, fault |-> fault]

\* readable files, those with the content "a" with every fault, and
\* unreadable ones
DirFiles ==
    {DirFile(x.file_path, x.content, x.readable, x.fault) :
        x \in [file_path : DirPaths, content : DirContents,
               readable : {TRUE}, fault : {NoFault}]
            \cup [file_path : DirPaths, content : {<<"a">>},
                  readable : {TRUE}, fault : DirFaults]
            \cup [file_path : DirPaths, content : {<<>>},
                  readable : {FALSE}, fault : {NoFault}]}

\* the listings of up to MaxFiles files of distinct paths
Listings ==
    {f \in UNION {[1..n -> DirFiles] : n \in 0..MaxFiles} :
        \A a, b \in DOMAIN f : a # b => f[a].file_path # f[b].file_path}

\* a test that skips no file
SkipEmpty_Never(content) == FALSE

\* if not content.strip() (documents.py 517)
SkipEmpty(content) == strip(content) = <<>>

RECURSIVE IndexFiles(_, _, _, _, _, _)
\* the loop over the files (documents.py 511-532), from file i on; each
\* create_document gets the categorization of the content of its own file
\* (documents.py 362)
IndexFiles(st, cfg, files, i, indexed, errors) ==
    IF i > Len(files)
    THEN [st |-> st, raised |-> FALSE,
          report |-> [indexed |-> indexed, total |-> Len(files),
                      errors |-> errors]]
    ELSE
    LET f == files[i]
        Ingested(r) ==
            IF r.raised
            THEN IndexFiles(r.st, cfg, files, i + 1, indexed,
                            Append(errors, [file |-> f.file_path,
                                            error |-> r.error]))
            ELSE IndexFiles(r.st, cfg, files, i + 1, indexed + 1, errors)
    IN  IF ~f.readable
        THEN IndexFiles(st, cfg, files, i + 1, indexed,
                        Append(errors, [file |-> f.file_path,
                                        error |-> "read_text"]))
        ELSE IF SkipEmpty(f.content)
        THEN IndexFiles(st, cfg, files, i + 1, indexed, errors)
        ELSE Ingested(create_document(st, cfg,
                                      Request(f.file_path, f.content),
                                      f.categorization, f.fault))

\* DocumentService.index_directory (documents.py 483-538); a directory that
\* does not exist raises ValueError
index_directory(st, cfg, exists, files) ==
    IF ~exists
    THEN [st |-> st, raised |-> TRUE,
          report |-> [indexed |-> 0, total |-> 0, errors |-> <<>>]]
    ELSE IndexFiles(st, cfg, files, 1, 0, <<>>)

InitDirectory ==
    /\ settings = [max_chunk_size |-> MaxSizeBound, chunk_overlap |-> 1]
    /\ documents = {}
    /\ snippets = {}
    /\ sqlite_sequence = [documents |-> 0, code_snippets |-> 0]
    /\ collection = <<>>
    /\ last = NoCall
    /\ calls = NoCalls
    /\ ChunkIdle
    /\ SearchIdle

\* POST /documents/index-directory -> DocumentService.index_directory
IndexDirectory(exists, files) ==
    \E r \in {index_directory(Stores, settings, exists, files)} :
        /\ r.st.sqlite_sequence.documents <= MaxDocs
        /\ SetStores(r.st)
        /\ last' = [op |-> "index_directory", exists |-> exists,
                    files |-> files, raised |-> r.raised,
                    report |-> r.report]
        /\ UNCHANGED <<settings, calls, chunkVars, searchVars>>

\* documents are ingested one by one, then a directory is indexed
NextDirectory ==
    \/ /\ last.op # "index_directory"
       /\ \E p \in {<<"d","/","m",".","r","s">>, <<"d","/","n",".","t","x",
           "t">>}, c \in {<<"a">>, <<"b">>} :
            CreateDocument(Request(p, c), Uncategorized, NoFault)
    \/ /\ last.op # "index_directory"
       /\ \E files \in Listings : IndexDirectory(TRUE, files)
    \/ /\ last.op # "index_directory"
       /\ IndexDirectory(FALSE, <<>>)

SpecDirectory == InitDirectory /\ [][NextDirectory]_vars

(***************************************************************************)
(* The concurrency study.  Several server processes share the database     *)
(* file and the collection; a handler runs to completion in its process,   *)
(* but every Database method commits on its own (database.py 25-36) and    *)
(* every collection call takes effect on its own, so the calls of          *)
(* different processes interleave between any two of those steps.          *)
(* calls[w] is the call that process w is in: pc names the store access it *)
(* makes next, the other fields are the handler's locals.  An idle process *)
(* remembers how its last call ended: it returned, or raised the named     *)
(* exception.                                                              *)
(***************************************************************************)
Workers == 1..2

Idle(outcome) == [pc |-> "idle", outcome |-> outcome]

\* an idle process whose last call returned ret
Returned(ret) == [pc |-> "idle", outcome |-> "returned", ret |-> ret]

\* two contents for one path, the second with two chunks, and another path
RaceRequests ==
    {Request(<<"m",".","r","s">>, <<"a">>),
     Request(<<"m",".","r","s">>, <<"f","n"," ","x">> \o <<NL>> \o <<"f","n",
         " ","y">>),
     Request(<<"n",".","t","x","t">>, <<"a">>)}

RaceUpdates ==
    {[title |-> <<<<"Z","z">>>>, summary |-> <<>>, tags |-> <<>>,
      category |-> <<>>]}

InitRace ==
    /\ settings = [max_chunk_size |-> MaxSizeBound, chunk_overlap |-> 1]
    /\ documents = {}
    /\ snippets = {}
    /\ sqlite_sequence = [documents |-> 0, code_snippets |-> 0]
    /\ collection = <<>>
    /\ last = NoCall
    /\ calls = [w \in Workers |-> Idle("none")]
    /\ ChunkIdle
    /\ SearchIdle

\* process w moves on; the stores become st
Step(w, call, st) ==
    /\ calls' = [calls EXCEPT ![w] = call]
    /\ SetStores(st)
    /\ UNCHANGED <<settings, last, chunkVars, searchVars>>

\* create_document up to the duplicate check (documents.py 337-347):
\* db.get_document_by_path and the comparison of the hashes
CheckExisting(w, document) ==
    /\ calls[w].pc = "idle"
    /\ LET existing == get_document_by_path(Stores, document.file_path)
           old == CHOOSE d \in existing : TRUE
       IN  Step(w,
                IF existing = {}
                THEN [pc |-> "insert_document", op |-> "create_document",
                      document |-> document]
                ELSE IF SameHash(old.content_hash,
                                 compute_content_hash(document.content))
                THEN [pc |-> "get_document", op |-> "create_document",
                      doc_id |-> old.id]
                ELSE [pc |-> "delete_embeddings", op |-> "create_document",
                      document |-> document, doc_id |-> old.id,
                      ids |-> {}],
                Stores)

\* the call after self.collection.get of EmbeddingService.delete_document
\* (embeddings.py 141-149): the ValueError of the get ends the call, in
\* create_document as in the DELETE handler; otherwise collection.delete
\* is made when ids were found, and the rows are deleted after it.  The
\* get that this code makes raises, so no call goes on to those steps.
AfterGetIds(call, results) ==
    IF results.raised THEN Idle("ValueError")
    ELSE IF results.ids # {}
    THEN [call EXCEPT !.pc = "delete_records", !.ids = results.ids]
    ELSE [call EXCEPT !.pc = "delete_snippets"]

\* delete_document called by DELETE /documents/{doc_id}: its first store
\* access is the one of DeleteEmbeddings
StartDelete(w, doc_id) ==
    /\ calls[w].pc = "idle"
    /\ Step(w, AfterGetIds([pc |-> "idle", op |-> "delete_document",
                            doc_id |-> doc_id, ids |-> {}],
                           collection_get(collection, doc_id, {"ids"})),
            Stores)

\* self.embedding_service.delete_document(doc_id) (documents.py 475) up to
\* its self.collection.get (embeddings.py 141-144)
DeleteEmbeddings(w) ==
    /\ calls[w].pc = "delete_embeddings"
    /\ Step(w, AfterGetIds(calls[w],
                           collection_get(collection, calls[w].doc_id,
                                          {"ids"})),
            Stores)

\* create_document from the classification to db.insert_document and the
\* chunking (documents.py 349-384); a violated UNIQUE constraint raises
InsertDocument(w, categorization) ==
    /\ calls[w].pc = "insert_document"
    /\ sqlite_sequence.documents < MaxDocs
    /\ LET document == calls[w].document
           detected == _detect_content_type(document.file_path,
                                            document.content)
           content_type == IF document.content_type # None
                           THEN document.content_type
                           ELSE detected.content_type
           language == IF Truthy(document.language) THEN document.language
                       ELSE detected.language
           inserted == insert_document(
                          Stores, document.file_path,
                          compute_content_hash(document.content),
                          IF document.title # <<>> THEN document.title
                          ELSE _extract_title(document.file_path,
                                              document.content),
                          content_type,
                          IF Truthy(language) THEN language
                          ELSE categorization.language,
                          categorization.summary, categorization.tags,
                          categorization.category)
           chunks == _chunk_content(document.content, content_type,
                                    IF Truthy(language) THEN language
                                    ELSE "plain",
                                    settings.max_chunk_size,
                                    settings.chunk_overlap)
       IN  Step(w,
                IF inserted.raised THEN Idle("IntegrityError")
                ELSE IF chunks = <<>>
                THEN [pc |-> "get_document", op |-> "create_document",
                      doc_id |-> inserted.lastrowid]
                ELSE [pc |-> "insert_snippet", op |-> "create_document",
                      document |-> document, doc_id |-> inserted.lastrowid,
                      chunks |-> chunks, k |-> 1],
                inserted.st)

\* db.insert_snippet for chunk k (documents.py 388-395)
InsertSnippet(w) ==
    /\ calls[w].pc = "insert_snippet"
    /\ Step(w, [calls[w] EXCEPT !.pc = "index_document"],
            insert_snippet(Stores, calls[w].doc_id,
                           calls[w].chunks[calls[w].k]))

\* self.embedding_service.index_document for chunk k (documents.py 398-406)
IndexChunk(w) ==
    /\ calls[w].pc = "index_document"
    /\ LET c == calls[w]
           chunk == c.chunks[c.k]
       IN  Step(w,
                IF c.k < Len(c.chunks)
                THEN [c EXCEPT !.pc = "insert_snippet", !.k = @ + 1]
                ELSE [pc |-> "get_document", op |-> "create_document",
                      doc_id |-> c.doc_id],
                [Stores EXCEPT !.collection =
                    index_document(@, c.doc_id, <<chunk.text>>,
                                   [file_path |-> c.document.file_path,
                                    language |-> chunk.language,
                                    intent |-> chunk.intent])])

\* update_document called by PATCH /documents/{doc_id}: db.update_document
\* (documents.py 463)
UpdateRow(w, doc_id, update) ==
    /\ calls[w].pc = "idle"
    /\ Step(w, [pc |-> "get_document", op |-> "update_document",
                doc_id |-> doc_id],
            Database_update_document(Stores, doc_id, update.title,
                                     update.summary, update.tags,
                                     update.category).st)

\* return self.get_document(doc_id) (documents.py 346, 408, 470) up to
\* its db.get_document (documents.py 412-414), which raises ValueError when
\* the row is gone
GetDocument(w) ==
    /\ calls[w].pc = "get_document"
    /\ LET found == {d \in documents : d.id = calls[w].doc_id}
       IN  Step(w,
                IF found = {} THEN Idle("ValueError")
                ELSE [pc |-> "get_snippets", op |-> calls[w].op,
                      doc_id |-> calls[w].doc_id,
                      row |-> CHOOSE d \in found : TRUE],
                Stores)

\* db.get_snippets_by_document(doc_id) and the DocumentResponse built from
\* the row read before and these snippets (documents.py 417-452)
GetSnippets(w) ==
    /\ calls[w].pc = "get_snippets"
    /\ Step(w, Returned([raised |-> FALSE, document |-> calls[w].row,
                         snippets |-> get_snippets_by_document(
                                          Stores, calls[w].doc_id)]),
            Stores)

NextRace ==
    \E w \in Workers :
        \/ \E document \in RaceRequests : CheckExisting(w, document)
        \/ \E doc_id \in 1..MaxDocs : StartDelete(w, doc_id)
        \/ \E update \in RaceUpdates : UpdateRow(w, 1, update)
        \/ DeleteEmbeddings(w)
        \/ InsertDocument(w, Uncategorized)
        \/ InsertSnippet(w)
        \/ IndexChunk(w)
        \/ GetDocument(w)
        \/ GetSnippets(w)

SpecRace == InitRace /\ [][NextRace]_vars

(***************************************************************************)
(* The categorization study: documents are ingested while the language     *)
(* model behind the categorizer is unavailable, fails, or answers.         *)
(***************************************************************************)
CategorizeContents ==
    {<<"f","n"," ","x">> \o <<NL>> \o <<"u","s","e"," ","a","p","i">>,
     <<"T","e","s","t">>,
     <<"#"," ","h">> \o <<NL>> \o <<" ","x">>,
     <<"d","e","f"," ","f">>}

FailureKinds ==
    {"unavailable", "raises", "no_json", "invalid_json", "invalid_fields"}

\* what the collaborator does: it fails in one of the ways, or answers with
\* a JSON object: an empty one, or one with every key
Answers ==
    [kind : FailureKinds, data : {<<>>}]
    \cup [kind : {"json"},
          data : {<<>>,
                  [category |-> "weird", tags |-> <<"x">>,
                      summary |-> <<"b">>,
                   language |-> "rust"]}]

CategorizeRequests == {Request(p, c) : p \in Paths, c \in CategorizeContents}

InitCategorize ==
    /\ settings = [max_chunk_size |-> DefaultMaxChunkSize,
                   chunk_overlap |-> DefaultChunkOverlap]
    /\ documents = {}
    /\ snippets = {}
    /\ sqlite_sequence = [documents |-> 0, code_snippets |-> 0]
    /\ collection = <<>>
    /\ last = NoCall
    /\ calls = NoCalls
    /\ ChunkIdle
    /\ SearchIdle

\* POST /documents -> DocumentService.create_document with the categorizer
\* behind it: categorize is called once the duplicate check has passed and
\* the old Document, if any, has been deleted (documents.py 340-369)
Ingest(document, answer) ==
    \E c \in {categorize(document.content, answer)} :
    \E r \in {LET existing == get_document_by_path(Stores,
                                                   document.file_path)
                   old == CHOOSE d \in existing : TRUE
                   same == /\ existing # {}
                           /\ SameHash(old.content_hash,
                                       compute_content_hash(document.content))
                   deleted == IF existing # {} /\ ~same
                              THEN DocumentService_delete_document(Stores,
                                                                   old.id)
                              ELSE [st |-> Stores, ret |-> FALSE,
                                    raised |-> FALSE]
               IN  [categorized |-> ~same /\ ~deleted.raised] @@
                   IF c.raised /\ ~same /\ ~deleted.raised
                   THEN [st |-> deleted.st, raised |-> TRUE,
                         ret |-> [raised |-> TRUE], submitted |-> 0,
                         replaced |-> IF existing # {} THEN old.id ELSE 0,
                         error |-> "categorize"]
                   ELSE create_document(Stores, settings, document, c.ret,
                                        NoFault)} :
        /\ r.st.sqlite_sequence.documents <= MaxDocs
        /\ SetStores(r.st)
        /\ last' = [op |-> "create_document", document |-> document,
                    doc_id |-> 0, raised |-> r.raised, ret |-> r.ret,
                    submitted |-> r.submitted, replaced |-> r.replaced,
                    error |-> IF r.raised THEN r.error ELSE "none",
                    repeat |-> FALSE, answer |-> answer,
                    categorized |-> r.categorized, categorization |-> c.ret]
        /\ UNCHANGED <<settings, calls, chunkVars, searchVars>>

NextCategorize ==
    \E document \in CategorizeRequests, answer \in Answers :
        Ingest(document, answer)

SpecCategorize == InitCategorize /\ [][NextCategorize]_vars

(***************************************************************************)
(* Retrieval: EmbeddingService.search (embeddings.py 96-136) and           *)
(* SearchService.semantic_search (search.py 23-105).  Similarities and     *)
(* distances are written in hundredths, so 30 is the float 0.3; the        *)
(* subtraction and the comparison of embeddings.py 126-128 are those of    *)
(* binary64 floats.  What the vector collection answers to a query is the  *)
(* embedding collaborator's choice: a ranking, a sequence of records       *)
(* [id, document, metadata, distance].                                     *)
(***************************************************************************)
MaxNeighbors == 3
MaxLimit == 2

\* settings.min_similarity_threshold (config.py 30), in hundredths
DefaultMinSimilarity == 30

\* re.split(r'[...]', s) for a class of single characters: the pieces between
\* consecutive separators, one more than there are separators
re_split_chars(s, seps) ==
    LET at == {i \in 1..Len(s) : s[i] \in seps}
        n == Cardinality(at)
        cut(k) == IF k = 0 THEN 0
                  ELSE IF k = n + 1 THEN Len(s) + 1
                  ELSE CHOOSE i \in at : Cardinality({j \in at : j <= i}) = k
    IN  [k \in 1..(n + 1) |-> SubSeq(s, cut(k - 1) + 1, cut(k) - 1)]

RECURSIVE PickFrom(_, _, _)
PickFrom(lst, flags, i) ==
    IF i > Len(lst) THEN <<>>
    ELSE IF flags[i] THEN <<lst[i]>> \o PickFrom(lst, flags, i + 1)
    ELSE PickFrom(lst, flags, i + 1)

\* the items of a list whose flag is set, in order
SelectList(lst, flags) == PickFrom(lst, flags, 1)

\* str.split() taking the whole str as one term
split_whitespace_Whole(s) == <<s>>

\* str.split() without a separator: the runs of non-whitespace
split_whitespace(s) ==
    LET parts == re_split_chars(s, Whitespace)
    IN  SelectList(parts, [k \in 1..Len(parts) |-> parts[k] # <<>>])

MaxHighlightLen == 200
MaxHighlights == 3

\* SearchService._extract_highlights (search.py 235-257)
_extract_highlights(text, query) ==
    IF text = <<>> \/ query = <<>> THEN <<>>
    ELSE
    LET query_terms == split_whitespace(lower(query))
        sentences == re_split_chars(text, {".", "!", "?", NL})
        stripped == [k \in 1..Len(sentences) |-> strip(sentences[k])]
        Hit(sentence) ==
            /\ sentence # <<>>
            /\ \E t \in 1..Len(query_terms) :
                contains(lower(sentence), query_terms[t])
        hits == SelectList(stripped,
                           [k \in 1..Len(stripped) |-> Hit(stripped[k])])
        highlights == [k \in 1..Len(hits) |->
                        IF Len(hits[k]) > MaxHighlightLen
                        THEN SubSeq(hits[k], 1, MaxHighlightLen) \o <<".",".",
                            ".">>
                        ELSE hits[k]]
    IN  SubSeq(highlights, 1, Min(MaxHighlights, Len(highlights)))

\* the where filter of a collection query, a dict written as a function on
\* its keys: every key of the filter is a key of the metadata with that
\* value.  None, written as the empty function, filters nothing.
NoFilters == <<>>

\* a filter that lets a record without the key pass
MatchesWhere_AbsentKeyPasses(metadata, where) ==
    \A k \in DOMAIN where : k \in DOMAIN metadata => metadata[k] = where[k]

MatchesWhere(metadata, where) ==
    \A k \in DOMAIN where : k \in DOMAIN metadata /\ metadata[k] = where[k]

\* collection.query(n_results, where) (embeddings.py 111-116): the first
\* n_results records of the ranking that pass the filter
query(ranking, n_results, where) ==
    LET passing == SelectList(ranking,
                    [k \in 1..Len(ranking) |->
                        MatchesWhere(ranking[k].metadata, where)])
    IN  SubSeq(passing, 1, Min(n_results, Len(passing)))

\* x or default, for an Optional[float] x, written <<>> for None and <<v>>
\* for the value v: None and 0.0 are both falsy
OrDefault(x, default) == IF x = <<>> \/ x[1] = 0 THEN default ELSE x[1]

RECURSIVE Pow2(_)
\* 2 ** n
Pow2(n) == IF n = 0 THEN 1 ELSE 2 * Pow2(n - 1)

RECURSIVE PowMod(_, _)
\* 2 ** n % q
PowMod(n, q) == IF n = 0 THEN 1 % q ELSE (2 * PowMod(n - 1, q)) % q

\* the float nearest to k / 100, for 0 <= k <= 100: its significand is the
\* integer nearest to k * 2^exp / 100, with exp the least that gives it 53
\* binary digits (no k is a tie).  low is the significand modulo 128, and
\* err is the float less k / 100, counted in units of 1 / (100 * 2^60).
Float(k) ==
    LET Rounded(exp, t) ==
            LET r == t % 100
            IN  [exp |-> exp,
                 low |-> ((t - r) \div 100 + (IF r > 50 THEN 1 ELSE 0)) % 128,
                 err |-> (IF r > 50 THEN 100 - r ELSE 0 - r) * Pow2(60 - exp)]
        At(exp) == Rounded(exp, (k * PowMod(exp, 100 * 128)) % (100 * 128))
    IN  At(52 + CHOOSE i \in 0..7 :
                    /\ k = 0 \/ k * Pow2(i) >= 100
                    /\ \A h \in 0..(i - 1) : k # 0 /\ k * Pow2(h) < 100)

\* what rounding adds to 1 - x to make it the float 1 - x of a float x of
\* d / 100, when the result has the exponent of the float of m / 100
\* (d + m = 100), in the units of err: the digits of x below the last
\* digit of the result are rounded to nearest, a tie to the even neighbor
SubtractionError(d, m) ==
    LET Rounding(x, s) ==
            LET rest == (Pow2(s) - (x.low % Pow2(s))) % Pow2(s)
                odd == (Pow2(s + 1) - (x.low % Pow2(s + 1))) % Pow2(s + 1)
                            >= Pow2(s)
                unit == 100 * Pow2(60 - x.exp)
            IN  IF 2 * rest < Pow2(s) \/ (2 * rest = Pow2(s) /\ ~odd)
                THEN (0 - rest) * unit
                ELSE (Pow2(s) - rest) * unit
        Between(x, y) ==
            IF x.exp - y.exp <= 0 THEN 0 ELSE Rounding(x, x.exp - y.exp)
    IN  Between(Float(d), Float(m))

\* 1 - distance >= min_sim (embeddings.py 126-128) for the floats of
\* distance / 100 and min_sim / 100: away from d + m = 100 the decimals
\* decide, at d + m = 100 the rounding errors of the three floats do
SimilarityAtLeast(distance, min_sim) ==
    IF distance + min_sim # 100 \/ distance < 0 \/ min_sim < 0
    THEN 100 - distance > min_sim
    ELSE SubtractionError(distance, min_sim) - Float(distance).err
            - Float(min_sim).err >= 0

\* EmbeddingService.search (embeddings.py 96-136)
EmbeddingService_search(ranking, q, limit, min_similarity, filters) ==
    IF q = <<>> \/ strip(q) = <<>> THEN <<>>
    ELSE
    LET results == query(ranking, limit, filters)
        min_sim == OrDefault(min_similarity, DefaultMinSimilarity)
        kept == SelectList(results,
                    [k \in 1..Len(results) |->
                        SimilarityAtLeast(results[k].distance, min_sim)])
    IN  [k \in 1..Len(kept) |->
            [chunk_id |-> kept[k].id,
             chunk_text |-> kept[k].document,
             metadata |-> kept[k].metadata,
             similarity |-> 100 - kept[k].distance]]

\* Database.get_document (database.py 145-163): the rows with that id
Database_get_document(st, doc_id) == {d \in st.documents : d.id = doc_id}

\* metadata.get("doc_id"), with 0 for None: its only use is the test
\* "not doc_id", which takes both alike
MetadataDocId(metadata) ==
    IF "doc_id" \in DOMAIN metadata THEN metadata.doc_id ELSE 0

\* the document response built from a row (search.py 52-85, 139-172); the
\* tags are None, <<>>, for a NULL column, else the list of the JSON text
doc_response(st, doc_data) ==
    [id |-> doc_data.id,
     file_path |-> doc_data.file_path,
     content_hash |-> doc_data.content_hash,
     title |-> doc_data.title,
     content_type |-> doc_data.content_type,
     language |-> doc_data.language,
     summary |-> doc_data.summary,
     tags |-> doc_data.tags,
     category |-> doc_data.category,
     snippets |-> get_snippets_by_document(st, doc_data.id)]

\* the SearchResult built for one neighbor (search.py 60-97)
SearchResult(st, result, doc_data, q) ==
    [document |-> doc_response(st, doc_data),
     snippet |-> result.chunk_text,
     similarity |-> result.similarity,
     highlights |-> _extract_highlights(result.chunk_text, q)]

\* a loop that never ends early
BreakAtLimit_Never(results, limit) == FALSE

\* the loop ends once the limit is reached (search.py 102-103)
BreakAtLimit(results, limit) == Len(results) >= limit

\* whether a neighbor's document was already answered (search.py 44)
Seen_Never(doc_id, seen_doc_ids) == FALSE

Seen(doc_id, seen_doc_ids) == doc_id \in seen_doc_ids

RECURSIVE SemanticLoop(_, _, _, _, _, _, _)
\* the loop over the neighbors (search.py 42-103), from neighbor i on
SemanticLoop(st, search_results, i, results, seen_doc_ids, q, limit) ==
    IF i > Len(search_results) THEN results
    ELSE
    LET result == search_results[i]
        doc_id == MetadataDocId(result.metadata)
        found == Database_get_document(st, doc_id)
        next == Append(results,
                       SearchResult(st, result, CHOOSE d \in found : TRUE, q))
    IN  IF doc_id = 0 \/ Seen(doc_id, seen_doc_ids)
        THEN SemanticLoop(st, search_results, i + 1, results, seen_doc_ids,
                          q, limit)
        ELSE IF found = {}
        THEN SemanticLoop(st, search_results, i + 1, results, seen_doc_ids,
                          q, limit)
        ELSE IF BreakAtLimit(next, limit) THEN next
        ELSE SemanticLoop(st, search_results, i + 1, next,
                          seen_doc_ids \cup {doc_id}, q, limit)

\* SearchService.semantic_search (search.py 23-105)
semantic_search(st, ranking, q, limit, min_similarity, filters) ==
    SemanticLoop(st,
                 EmbeddingService_search(ranking, q, limit * 2, min_similarity,
                                         filters),
                 1, <<>>, {}, q, limit)

(***************************************************************************)
(* Database.list_documents (database.py 220-267) and the keyword stage     *)
(* SearchService.keyword_search (search.py 107-189).  rows is the          *)
(* documents table in the order of ORDER BY updated_at DESC; the           *)
(* timestamps have a resolution of one second, so the order of rows        *)
(* written within one second is the database's choice.                     *)
(***************************************************************************)
KeywordPageSize == 100
KeywordSnippetLen == 200
KeywordSimilarity == 100

list_documents(rows, page, page_size, content_type, language, category) ==
    LET Passes(d) ==
            /\ Truthy(content_type) => d.content_type = content_type
            /\ Truthy(language) => d.language = language
            /\ Truthy(category) => d.category = category
        matching == SelectList(rows, [k \in 1..Len(rows) |-> Passes(rows[k])])
        offset == (page - 1) * page_size
    IN  [items |-> SubSeq(matching, offset + 1,
                          Min(offset + page_size, Len(matching))),
         total |-> Len(matching)]

\* query_lower in search_text (search.py 127-134)
KeywordHit(doc_data, q) ==
    contains(lower(join(<<" ">>, <<doc_data.file_path, doc_data.title,
                               doc_data.summary>>)),
             lower(q))

\* the SearchResult built for one matching row (search.py 136-183)
KeywordResult(st, doc_data, q) ==
    [document |-> doc_response(st, doc_data),
     snippet |-> SubSeq(doc_data.summary, 1,
                        Min(KeywordSnippetLen, Len(doc_data.summary))),
     similarity |-> KeywordSimilarity,
     highlights |-> <<q>>]

RECURSIVE KeywordLoop(_, _, _, _, _, _)
\* the loop over the listed rows (search.py 125-187), from row i on
KeywordLoop(st, items, i, results, q, limit) ==
    IF i > Len(items) THEN results
    ELSE IF ~KeywordHit(items[i], q)
    THEN KeywordLoop(st, items, i + 1, results, q, limit)
    ELSE LET next == Append(results, KeywordResult(st, items[i], q))
         IN  IF BreakAtLimit(next, limit) THEN next
             ELSE KeywordLoop(st, items, i + 1, next, q, limit)

keyword_search(st, rows, q, limit, content_type, language, category) ==
    KeywordLoop(st,
                list_documents(rows, 1, KeywordPageSize, content_type,
                               language, category).items,
                1, <<>>, q, limit)

(***************************************************************************)
(* SearchService.search (search.py 191-233).  A request is the record      *)
(* [query, limit, min_similarity, content_type, language, tags, category]; *)
(* its tags are a list, <<>> for None as for the empty list, which the     *)
(* code takes alike.  unavailable says that the embedding collaborator     *)
(* raises when it is asked (generate_embedding or collection.query,        *)
(* embeddings.py 107-116).                                                 *)
(***************************************************************************)
\* the filters dict (search.py 197-201); an empty dict is passed as None
Filters(request) ==
    [k \in {f \in {"language", "category"} : Truthy(request[f])} |->
        request[k]]

\* if not results (search.py 212)
NoResults_Never(results) == FALSE

NoResults(results) == results = <<>>

\* the test of one Result against the requested tags (search.py 226-228)
TagsMiss(request, r) ==
    /\ request.tags # <<>>
    /\ r.document.tags # <<>> /\ r.document.tags[1] # <<>>
    /\ ~\E k \in 1..Len(r.document.tags[1]) :
            \E j \in 1..Len(request.tags) :
                r.document.tags[1][k] = request.tags[j]

\* the post-filter (search.py 222-231)
PostFilter(request, results) ==
    IF Truthy(request.content_type) \/ request.tags # <<>>
    THEN SelectList(results,
            [k \in 1..Len(results) |->
                /\ ~(/\ Truthy(request.content_type)
                     /\ results[k].document.content_type
                        # request.content_type)
                /\ ~TagsMiss(request, results[k])])
    ELSE results

search(st, rows, ranking, request, unavailable) ==
    LET asked == ~(request.query = <<>> \/ strip(request.query) = <<>>)
        semantic == semantic_search(st, ranking, request.query,
                                    request.limit, request.min_similarity,
                                    Filters(request))
        fallback == NoResults(semantic)
        results == IF fallback
                   THEN keyword_search(st, rows, request.query,
                                       request.limit, request.content_type,
                                       request.language, request.category)
                   ELSE semantic
    IN  IF unavailable /\ asked
        THEN [raised |-> TRUE, semantic |-> <<>>, keyword |-> FALSE,
              results |-> <<>>]
        ELSE [raised |-> FALSE, semantic |-> semantic, keyword |-> fallback,
              results |-> PostFilter(request, results)]

(***************************************************************************)
(* The retrieval study.  Documents are ingested, deletes are asked for,    *)
(* and semantic searches run against the database with a ranking from the  *)
(* collaborator.                                                           *)
(***************************************************************************)
Distances == {10, 80}

\* the chunk text of the neighbor at a position: "a", "aa", ...
TextAt(i) == [j \in 1..i |-> "a"]

Neighbor(doc_id, distance, i) ==
    [id |-> EmbeddingId(doc_id, i - 1),
     document |-> TextAt(i),
     metadata |-> [doc_id |-> doc_id, chunk_index |-> i - 1],
     distance |-> distance]

NeighborChoices == [doc_id : 1..MaxDocs, distance : Distances]

Rankings ==
    {[i \in DOMAIN f |-> Neighbor(f[i].doc_id, f[i].distance, i)] :
        f \in UNION {[1..n -> NeighborChoices] : n \in 0..MaxNeighbors}}

\* neighbors [(doc1, 0.9), (doc1, 0.8), (doc2, 0.85)]
ExampleRanking ==
    <<Neighbor(1, 10, 1), Neighbor(1, 20, 2), Neighbor(2, 15, 3)>>

Queries == {<<"a">>, <<" ">>}
MinSimilarities == {<<>>, <<0>>, <<15>>}

SearchRequests == {Request(p, <<"a">>) : p \in Paths}

InitSearch ==
    /\ StoreIdle
    /\ ChunkIdle
    /\ SearchIdle

\* SearchService.semantic_search
SemanticSearch(ranking, q, limit, min_similarity) ==
    /\ searchIn' = [op |-> "semantic_search", ranking |-> ranking,
                    query |-> q, limit |-> limit,
                    min_similarity |-> min_similarity]
    /\ searchOut' = [op |-> "semantic_search",
                     results |-> semantic_search(Stores, ranking, q, limit,
                                                 min_similarity, NoFilters)]
    /\ UNCHANGED <<storeVars, chunkVars>>

\* the study follows the stores up to one search
NextSearch ==
    \/ /\ searchOut = NoCall
       /\ \E document \in SearchRequests :
            CreateDocument(document, Uncategorized, NoFault)
    \/ /\ searchOut = NoCall
       /\ \E doc_id \in 1..MaxDocs : DeleteDocument(doc_id)
    \/ /\ searchOut = NoCall
       /\ \E ranking \in Rankings \cup {ExampleRanking}, q \in Queries,
             limit \in 1..MaxLimit, min_similarity \in MinSimilarities :
            SemanticSearch(ranking, q, limit, min_similarity)

SpecSearch == InitSearch /\ [][NextSearch]_vars

(***************************************************************************)
(* The hybrid search study.  Documents are ingested with the categories    *)
(* and tags the categorizer gives them, and one search (POST /search) runs *)
(* against them.  The embedding collaborator answers with records of the   *)
(* collection, in an order and at distances of its choice; the database    *)
(* lists the documents in an order of its choice.                          *)
(***************************************************************************)
MaxSearchNeighbors == 2

\* the sequences of up to n distinct members of a set
Arrangements(S, n) ==
    {f \in UNION {[1..k -> S] : k \in 0..n} :
        \A a, b \in DOMAIN f : a # b => f[a] # f[b]}

\* what collection.query can answer from the records the collection holds
CollectionRankings(coll) ==
    LET ids == Arrangements(DOMAIN coll, MaxSearchNeighbors)
        distances == UNION {[1..k -> Distances] : k \in 0..MaxSearchNeighbors}
    IN  {[i \in DOMAIN c[1] |-> [id |-> c[1][i],
                                 document |-> coll[c[1][i]].document,
                                 metadata |-> coll[c[1][i]].metadata,
                                 distance |-> c[2][i]]] :
            c \in {p \in ids \X distances : Len(p[1]) = Len(p[2])}}

\* the documents table in an order that ORDER BY can give it
TableOrders(rows) ==
    {f \in Arrangements(rows, Cardinality(rows)) : Len(f) = Cardinality(rows)}

HybridQueries == {<<"a">>, <<"M">>, <<" ">>}

HybridParameters ==
    [limit : 1..MaxLimit, min_similarity : {<<>>},
     content_type : {None, "code"}, language : {None, "rust"},
     tags : {<<>>, <<"x">>, <<"y">>}, category : {None, "api"}]

InitHybrid ==
    /\ StoreIdle
    /\ ChunkIdle
    /\ SearchIdle

\* POST /search -> SearchService.search
Search(rows, ranking, request, unavailable) ==
    /\ searchIn' = [op |-> "search", rows |-> rows, ranking |-> ranking,
                    request |-> request, unavailable |-> unavailable]
    /\ searchOut' = [op |-> "search"] @@
                    search(Stores, rows, ranking, request, unavailable)
    /\ UNCHANGED <<storeVars, chunkVars>>

\* the study follows the stores up to one search
NextHybrid ==
    \/ /\ searchOut = NoCall
       /\ \E document \in SearchRequests,
             categorization \in Categorizations :
            CreateDocument(document, categorization, NoFault)
    \/ /\ searchOut = NoCall
       /\ \E rows \in TableOrders(documents),
             ranking \in CollectionRankings(collection),
             q \in HybridQueries, parameters \in HybridParameters,
             unavailable \in BOOLEAN :
            Search(rows, ranking, [query |-> q] @@ parameters, unavailable)

SpecHybrid == InitHybrid /\ [][NextHybrid]_vars

(***************************************************************************)
(* The highlight study: SearchService._extract_highlights applied to chunk *)
(* texts built of up to MaxSentences sentences and to a few queries.       *)
(***************************************************************************)
MaxSentences == 4

\* a sentence one character over the cut, and one exactly at it
LongSentence == [k \in 1..(MaxHighlightLen + 1) |-> "a"]
ExactSentence == [k \in 1..MaxHighlightLen |-> "a"]

SentenceVocab == {<<" ">>, <<" ","A"," ","b">>, <<"x">>, <<"a">>}
SentenceEnds == {".", "!", "?", NL}

\* texts of short sentences, and texts with a long sentence among them
HighlightTexts ==
    {join(<<e>>, f) :
        e \in SentenceEnds,
        f \in UNION {[1..n -> SentenceVocab] : n \in 0..MaxSentences}}
    \cup {join(<<e>>, <<s, LongSentence, t, ExactSentence>>) :
            e \in SentenceEnds, s \in SentenceVocab, t \in SentenceVocab}

HighlightQueries == {<<>>, <<" ">>, <<"a">>, <<"B"," "," ","q">>, <<"A","b">>}

InitHighlight ==
    /\ StoreIdle
    /\ ChunkIdle
    /\ searchIn \in [op : {"_extract_highlights"}, text : HighlightTexts,
                     query : HighlightQueries]
    /\ searchOut = NoCall

\* SearchService._extract_highlights(text, query)
ExtractHighlights ==
    /\ searchIn.op = "_extract_highlights"
    /\ searchOut = NoCall
    /\ searchOut' = [op |-> "_extract_highlights",
                     highlights |->
                        _extract_highlights(searchIn.text, searchIn.query)]
    /\ UNCHANGED <<searchIn, storeVars, chunkVars>>

NextHighlight == ExtractHighlights

SpecHighlight == InitHighlight /\ [][NextHighlight]_vars

(***************************************************************************)
(* Properties of the chunkers, checked under SpecChunk.                    *)
(***************************************************************************)
ChunkDone(op) == chunkOut # NoCall /\ chunkOut.op = op

InputLines == split(chunkIn.content, NL)

\* C5: code chunking never returns a chunk whose text is longer than
\* max_size characters, for any content, language, max_size >= 1, overlap >= 0.
C5_CodeChunksWithinMaxSize ==
    ChunkDone("_chunk_code") =>
        \A k \in 1..Len(chunkOut.chunks) :
            Len(chunkOut.chunks[k].text) <= chunkIn.max_size

\* the lines of chunk k that no earlier chunk already ended with
FreshLines(chunks, k) ==
    LET before == IF k = 1 THEN 0 ELSE chunks[k - 1].end_line
    IN  DropFirst(split(chunks[k].text, NL),
                  before - chunks[k].start_line + 1)

RECURSIVE Reconstruct(_, _)
Reconstruct(chunks, k) ==
    IF k > Len(chunks) THEN <<>>
    ELSE FreshLines(chunks, k) \o Reconstruct(chunks, k + 1)

\* C6: plain-text chunking covers the input: every chunk's text is exactly
\* input lines start_line..end_line, the first chunk starts at line 1, the
\* last ends at the last line, start_line and end_line never decrease, no
\* line is skipped between consecutive chunks, and the chunks with the
\* overlapping lines removed give back the input lines.
C6_PlainChunksCoverInput ==
    ChunkDone("_chunk_text") =>
        LET cs == chunkOut.chunks
            n == Len(cs)
        IN  /\ n >= 1
            /\ cs[1].start_line = 1
            /\ cs[n].end_line = Len(InputLines)
            /\ \A k \in 1..n :
                /\ 1 <= cs[k].start_line
                /\ cs[k].start_line <= cs[k].end_line
                /\ cs[k].text = join(<<NL>>, SubSeq(InputLines, cs[k].start_line,
                                                    cs[k].end_line))
            /\ \A k \in 1..(n - 1) :
                /\ cs[k].start_line <= cs[k + 1].start_line
                /\ cs[k].end_line <= cs[k + 1].end_line
                /\ cs[k + 1].start_line <= cs[k].end_line + 1
            /\ Reconstruct(cs, 1) = InputLines

\* C6 witness: a plain chunking into three or more chunks in which a chunk
\* repeats lines of the one before it
C6_Witness ==
    /\ ChunkDone("_chunk_text")
    /\ Len(chunkOut.chunks) >= 3
    /\ chunkIn.overlap >= 1
    /\ \E k \in 1..(Len(chunkOut.chunks) - 1) :
        chunkOut.chunks[k + 1].start_line <= chunkOut.chunks[k].end_line

\* C7: consecutive plain chunks share exactly min(overlap, len(previous))
\* lines: the next chunk starts that many lines before the line after the
\* previous chunk's last one and begins with the previous chunk's last lines,
\* for every overlap >= 0 (so none are shared at overlap = 0).
C7_PlainOverlapExact ==
    ChunkDone("_chunk_text") =>
        \A k \in 1..(Len(chunkOut.chunks) - 1) :
            LET p == chunkOut.chunks[k]
                q == chunkOut.chunks[k + 1]
                p_lines == split(p.text, NL)
                shared == Min(chunkIn.overlap, Len(p_lines))
            IN  /\ q.start_line = p.end_line + 1 - shared
                /\ SubSeq(split(q.text, NL), 1, shared)
                   = SubSeq(p_lines, Len(p_lines) - shared + 1, Len(p_lines))

ExampleRun ==
    /\ ChunkDone("_chunk_code")
    /\ chunkOut.language = "python"
    /\ chunkIn.content = ExampleContent
    /\ chunkIn.max_size = DefaultMaxChunkSize

ExampleChunks(span1, span2) ==
    LET cs == chunkOut.chunks
    IN  /\ Len(cs) = 2
        /\ <<cs[1].start_line, cs[1].end_line>> = span1
        /\ <<cs[2].start_line, cs[2].end_line>> = span2
        /\ \A k \in 1..2 : cs[k].intent = "function" /\ cs[k].language = "python"

\* C8 as claimed: the a.py example gives two "function"/"python" chunks
\* spanning lines 1-2 and 4-5.
C8_ExampleSpansClaimed == ExampleRun => ExampleChunks(<<1, 2>>, <<4, 5>>)

\* C8 amended: the a.py example gives two "function"/"python" chunks spanning
\* lines 1-3 and 4-6: a chunk runs up to the line before the next definition,
\* or to the last line of content.split("\n").
C8_ExampleSpans == ExampleRun => ExampleChunks(<<1, 3>>, <<4, 6>>)

\* C8 witness: the example has been chunked as Python code with max_size 1000
C8_Witness == ExampleRun /\ Len(chunkOut.chunks) = 2

\* C9: chunking empty content gives no chunks, for every chunker.
C9_EmptyContentNoChunks ==
    (chunkOut # NoCall /\ chunkIn.content = <<>>) => chunkOut.chunks = <<>>

(***************************************************************************)
(* Properties of the classifier, checked under SpecClassify.               *)
(***************************************************************************)
Classified == chunkOut.op = "_detect_content_type"

\* the closed fenced blocks of a generated content
ClosedBlocks(content) ==
    CHOOSE n \in 0..MaxBlocks :
        content \in {FencedContent(n), FencedContent(n) \o Fence \o <<"y">>}

\* the extensions LANGUAGE_MAP gives one of the config languages
ConfigExtensions ==
    {ext \in MappedExtensions : LANGUAGE_MAP(ext) \in {"json", "yaml", "toml"}}

\* the source extensions the classifier takes for code
SourceExtensions ==
    {<<".","p","y">>, <<".","j","s">>, <<".","t","s">>, <<".","g","o">>,
        <<".","r","s">>, <<".","j","a","v","a">>, <<".","s","q","l">>, <<".",
        "s","h">>}

\* C25: the content_type follows from the extension alone, except for .md,
\* which is code exactly when the content has more than 2 fenced blocks and
\* markdown otherwise; the source extensions and every extension mapped to
\* json, yaml or toml are code, every other extension is plain; the language
\* is the one the extension map gives, "plain" for an unmapped extension.
C25_ClassifyByExtension ==
    Classified =>
        LET ext == lower(Path_suffix(chunkIn.file_path))
        IN  /\ chunkOut.content_type
               = IF ext = <<".","m","d">>
                 THEN IF ClosedBlocks(chunkIn.content) > 2 THEN "code"
                      ELSE "markdown"
                 ELSE IF ext \in SourceExtensions \cup ConfigExtensions
                 THEN "code"
                 ELSE "plain"
            /\ chunkOut.language
               = IF ext \in MappedExtensions THEN LANGUAGE_MAP(ext)
                 ELSE "plain"

(***************************************************************************)
(* Properties of ingestion, checked under Spec.  Every step of Spec is one *)
(* call: the unprimed variables are the stores before it, the primed ones  *)
(* the stores after it, and last' describes the call.                      *)
(***************************************************************************)
Created == last.op = "create_document"

DocsAt(docs, file_path) == {d \in docs : d.file_path = file_path}

RecordsOf(coll, doc_id) == {k \in DOMAIN coll : coll[k].metadata.doc_id = doc_id}

\* C1: ingesting the same (path, content) twice in a row is idempotent: the
\* second call leaves exactly one Document for the path, the one there after
\* the first call (same id, same content_hash), leaves the Chunk rows and
\* the Embedding Records as they were, and submits nothing to the embedding
\* service; when the first call left the Document with the fingerprint of
\* the content, the second returns that Document without raising.
C1_SameContentTwiceIsNoOp ==
    [][(last'.op = "create_document" /\ last'.repeat) =>
        /\ documents' = documents
        /\ Cardinality(DocsAt(documents', last'.document.file_path)) = 1
        /\ \A d \in DocsAt(documents, last'.document.file_path) :
            d.content_hash = compute_content_hash(last'.document.content)
            => /\ ~last'.raised
               /\ last'.ret.document = d
        /\ snippets' = snippets
        /\ collection' = collection
        /\ last'.submitted = 0]_vars

\* C1 witness: the same (path, content) was ingested twice in a row, and the
\* document has several chunks
C1_Witness ==
    /\ Created /\ last.repeat /\ ~last.raised
    /\ Cardinality(last.ret.snippets) >= 2

\* C2: ingesting a path whose Document has a different content_hash destroys
\* that Document, its Chunk rows and its Embedding Records: afterwards the
\* path has one Document, with another id and another content_hash, no Chunk
\* row carries an id that a Chunk of the old Document had, and no Chunk row
\* or Embedding Record belongs to the old Document.
C2_ChangedContentReplacesAll ==
    [][\A old \in documents :
        (/\ last'.op = "create_document"
         /\ old.file_path = last'.document.file_path
         /\ old.content_hash # compute_content_hash(last'.document.content))
        =>
        /\ last'.replaced = old.id
        /\ \A d \in documents' : d.id # old.id
        /\ \E d \in documents' :
            /\ DocsAt(documents', old.file_path) = {d}
            /\ d.content_hash # old.content_hash
        /\ \A s \in snippets :
            s.document_id = old.id => \A t \in snippets' : t.id # s.id
        /\ \A t \in snippets' : t.document_id # old.id
        /\ RecordsOf(collection', old.id) = {}]_vars

\* the chunks an ingest of this request produces
ExpectedChunks(document) ==
    LET detected == _detect_content_type(document.file_path, document.content)
    IN  _chunk_content(document.content, detected.content_type,
                       detected.language, settings.max_chunk_size,
                       settings.chunk_overlap)

\* the path's Document is there with a Chunk row and an Embedding Record for
\* every chunk of its content
FullyPersisted(docs, snips, coll, document) ==
    \E d \in DocsAt(docs, document.file_path) :
        /\ d.content_hash = compute_content_hash(document.content)
        /\ Cardinality({s \in snips : s.document_id = d.id})
           = Len(ExpectedChunks(document))
        /\ Cardinality(RecordsOf(coll, d.id)) = Len(ExpectedChunks(document))

\* C3: an ingest that fails at a chunk-row insert or an embedding submission
\* leaves the stores either with every chunk of the new Document persisted
\* or exactly as they were before the call.
C3_FailedIngestIsAtomic ==
    [][(last'.op = "create_document" /\ last'.raised) =>
        \/ /\ documents' = documents
           /\ snippets' = snippets
           /\ collection' = collection
        \/ FullyPersisted(documents', snippets', collection',
                          last'.document)]_vars

\* C4: after a successful ingest that produced n chunks the collection holds
\* exactly n Embedding Records for the document, under the ids
\* doc_{id}_chunk_{i} for i = 0..n-1, each with chunk_index = i.
C4_OneEmbeddingPerChunk ==
    (Created /\ ~last.raised) =>
        LET id == last.ret.document.id
            n == Cardinality(last.ret.snippets)
        IN  /\ RecordsOf(collection, id) = {EmbeddingId(id, i) : i \in 0..(n - 1)}
            /\ \A i \in 0..(n - 1) :
                collection[EmbeddingId(id, i)].metadata.chunk_index = i

\* C27: once an ingest of (path, content) has failed at a chunk insert or an
\* embedding submission after its Document row was stored, the next ingest of
\* the same (path, content) finds the stored content_hash and returns that
\* Document without raising; it adds no Chunk row and no Embedding Record,
\* so the chunks the failed ingest left out stay missing.
C27_RetryKeepsPartialState ==
    [][(/\ last.op = "create_document" /\ last.raised
        /\ last.error \in {"insert_snippet", "index_document"}
        /\ last'.op = "create_document"
        /\ last'.document.file_path = last.document.file_path
        /\ last'.document.content = last.document.content)
        =>
        /\ ~last'.raised
        /\ last'.ret.document \in DocsAt(documents, last.document.file_path)
        /\ last'.ret.document.content_hash
           = compute_content_hash(last.document.content)
        /\ last'.submitted = 0
        /\ documents' = documents
        /\ snippets' = snippets
        /\ collection' = collection
        /\ ~FullyPersisted(documents', snippets', collection', last.document)
       ]_vars

\* C27 witness: the ingest was retried after its failure, the retry returned
\* the Document, and chunks of its content have neither row nor record
C27_Witness ==
    /\ Created /\ last.repeat /\ ~last.raised
    /\ last.submitted = 0
    /\ Len(ExpectedChunks(last.document)) >= 2
    /\ Cardinality(last.ret.snippets) = 1
    /\ RecordsOf(collection, last.ret.document.id) = {}
    /\ ~FullyPersisted(documents, snippets, collection, last.document)

(***************************************************************************)
(* Properties of directory ingest, checked under SpecDirectory.            *)
(***************************************************************************)
\* the files of a listing that are skipped: read, and empty once trimmed
SkippedFiles(files) ==
    {i \in 1..Len(files) : files[i].readable /\ strip(files[i].content) = <<>>}

\* the files of a listing whose ingest raises against the stores docs:
\* those that cannot be read, those whose path has a Document with another
\* content, whose delete raises, and those whose ingest meets its fault,
\* which an ingest that finds its content already stored does not
RaisingFiles(docs, files) ==
    {i \in 1..Len(files) :
        \/ ~files[i].readable
        \/ /\ i \notin SkippedFiles(files)
           /\ \E d \in DocsAt(docs, files[i].file_path) :
                d.content_hash # compute_content_hash(files[i].content)
        \/ /\ i \notin SkippedFiles(files)
           /\ files[i].fault # NoFault
           /\ ~\E d \in DocsAt(docs, files[i].file_path) :
                d.content_hash = compute_content_hash(files[i].content)}

\* C21: directory ingest treats every file on its own: a file that is empty
\* once trimmed is skipped, without ingest and without error entry; a file
\* whose ingest raises gets one {file, error} entry, and the files after it
\* are still ingested; indexed counts the files whose ingest returned, and
\* indexed + len(errors) + skipped = total.
C21_DirectoryIngestIsPerFile ==
    [][(last'.op = "index_directory" /\ ~last'.raised) =>
        LET files == last'.files
            report == last'.report
            skipped == SkippedFiles(files)
            raising == RaisingFiles(documents, files)
            returned == (1..Len(files)) \ (skipped \cup raising)
        IN  /\ report.total = Len(files)
            /\ report.indexed = Cardinality(returned)
            /\ Len(report.errors) = Cardinality(raising)
            /\ report.indexed + Len(report.errors) + Cardinality(skipped)
               = report.total
            /\ \A i \in raising :
                Cardinality({k \in 1..Len(report.errors) :
                    report.errors[k].file = files[i].file_path}) = 1
            /\ \A i \in skipped :
                /\ \A k \in 1..Len(report.errors) :
                    report.errors[k].file # files[i].file_path
                /\ DocsAt(documents', files[i].file_path)
                   = DocsAt(documents, files[i].file_path)
            /\ \A i \in returned :
                /\ \A k \in 1..Len(report.errors) :
                    report.errors[k].file # files[i].file_path
                /\ \E d \in DocsAt(documents', files[i].file_path) :
                    d.content_hash = compute_content_hash(files[i].content)
                /\ files[i].fault = NoFault =>
                    FullyPersisted(documents', snippets', collection',
                                   Request(files[i].file_path,
                                           files[i].content))]_vars

\* C21 witness: the ingest of the first file raised, and the second file was
\* ingested all the same
C21_Witness ==
    /\ last.op = "index_directory" /\ ~last.raised
    /\ Len(last.files) = 2
    /\ last.files[1].fault.at = "insert_snippet"
    /\ last.files[2].fault = NoFault /\ last.files[2].content = <<"a">>
    /\ last.report = [indexed |-> 1, total |-> 2,
                      errors |-> <<[file |-> last.files[1].file_path,
                                    error |-> "insert_snippet"]>>]
    /\ FullyPersisted(documents, snippets, collection,
                      Request(last.files[2].file_path, <<"a">>))

\* a blank file was skipped between an unreadable file and nothing else
C21_WitnessSkipped ==
    /\ last.op = "index_directory" /\ ~last.raised
    /\ Len(last.files) = 2
    /\ ~last.files[1].readable
    /\ last.files[2].content = <<" ">> \o <<NL>>
    /\ last.report.indexed = 0 /\ Len(last.report.errors) = 1
    /\ documents = {}

(***************************************************************************)
(* Properties of ingestion, metadata update and deletion, checked under    *)
(* SpecMeta.  Every step of SpecMeta is one call, made while the database  *)
(* and the embedding of chunks do not fail.                                *)
(***************************************************************************)
\* C14: a create_document call with empty content is rejected before any
\* mutation: it raises, inserts no Document row, no Chunk row and no
\* Embedding Record, and deletes nothing.
C14_EmptyContentRejected ==
    [][(last'.op = "create_document" /\ last'.document.content = <<>>) =>
        /\ last'.raised
        /\ documents' = documents
        /\ snippets' = snippets
        /\ collection' = collection]_vars

\* C15: the Document that a successful ingest returns has at least one
\* Chunk row.
C15_IngestedDocumentHasChunks ==
    (Created /\ ~last.raised) =>
        /\ last.ret.snippets # {}
        /\ \E s \in snippets : s.document_id = last.ret.document.id

\* C17: after an ingest of content that is not empty the Document of its
\* path carries the fingerprint of the content that ingest was given, and
\* every other Document is as it was; an update of metadata changes no
\* fingerprint; and when the call before was an ingest of the same path,
\* the stored fingerprint changes exactly when the new content differs from
\* the content of that call.
C17_HashFollowsLastIngest ==
    [][/\ (last'.op = "create_document" /\ last'.document.content # <<>>) =>
            LET path == last'.document.file_path
            IN  /\ \E d \in documents' :
                    /\ DocsAt(documents', path) = {d}
                    /\ d.content_hash
                       = compute_content_hash(last'.document.content)
                /\ \A d \in documents : d.file_path # path => d \in documents'
                /\ \A d \in documents' : d.file_path # path => d \in documents
                /\ (/\ last.op = "create_document"
                    /\ last.document.content # <<>>
                    /\ last.document.file_path = path)
                   => \A old \in DocsAt(documents, path) :
                        \A d \in DocsAt(documents', path) :
                            d.content_hash # old.content_hash
                            <=> last'.document.content # last.document.content
       /\ last'.op = "update_document" =>
            /\ \A old \in documents : \E d \in documents' :
                    /\ d.id = old.id /\ d.file_path = old.file_path
                    /\ d.content_hash = old.content_hash
            /\ Cardinality(documents') = Cardinality(documents)]_vars

\* C18: update_document changes only the title, summary, tags and category
\* of the addressed Document: its content_hash, path, content_type and
\* language, every other Document, every Chunk row and every Embedding
\* Record stay as they were and no row id is consumed; and an ingest of a
\* path with the content it already has leaves the stores as they are and
\* returns the Document with the metadata it had.
C18_UpdateKeepsContentAndChunks ==
    [][/\ last'.op = "update_document" =>
            /\ \A old \in documents : \E d \in documents' :
                    /\ d.id = old.id
                    /\ d.file_path = old.file_path
                    /\ d.content_hash = old.content_hash
                    /\ d.content_type = old.content_type
                    /\ d.language = old.language
                    /\ old.id # last'.doc_id => d = old
            /\ Cardinality(documents') = Cardinality(documents)
            /\ snippets' = snippets
            /\ collection' = collection
            /\ sqlite_sequence' = sqlite_sequence
       /\ \A old \in documents :
            (/\ last'.op = "create_document"
             /\ old.file_path = last'.document.file_path
             /\ old.content_hash
                = compute_content_hash(last'.document.content))
            => /\ documents' = documents
               /\ snippets' = snippets
               /\ collection' = collection
               /\ last'.submitted = 0
               /\ ~last'.raised
               /\ last'.ret.document = old]_vars

\* C18 witness: a Document whose title, tags and category had been updated
\* was ingested again with the same content and came back with them
C18_Witness ==
    /\ Created /\ ~last.raised /\ last.submitted = 0
    /\ last.ret.document.title = <<"Z","z">>
    /\ last.ret.document.tags = << <<"y">> >>
    /\ last.ret.document.category = "api"
    /\ last.ret.snippets # {}
    /\ last.ret.document \in documents

\* C20: delete_document on an id without a Document returns false, which
\* the HTTP layer answers with status 404 (NotFound), and leaves every
\* Document row, Chunk row and Embedding Record as it was; on the id of a
\* Document it returns true.
C20_DeleteMissingIsNoOp ==
    [][last'.op = "delete_document" =>
        IF \E d \in documents : d.id = last'.doc_id
        THEN last'.returned /\ last'.ret = TRUE
        ELSE /\ last'.returned /\ last'.ret = FALSE
             /\ last'.status = 404
             /\ documents' = documents
             /\ snippets' = snippets
             /\ collection' = collection]_vars

\* C28: a refresh of the id of a Document removes the Document, its Chunk
\* rows and its Embedding Records, creates nothing in their place and ends
\* with status 400; a refresh of an id without a Document ends with status
\* 404 and leaves the stores as they were.
C28_RefreshDeletesThenFails ==
    [][last'.op = "refresh_document" =>
        IF \E d \in documents : d.id = last'.doc_id
        THEN /\ last'.status = 400
             /\ documents' = {d \in documents : d.id # last'.doc_id}
             /\ snippets' = {s \in snippets : s.document_id # last'.doc_id}
             /\ RecordsOf(collection', last'.doc_id) = {}
             /\ \A k \in DOMAIN collection' :
                    k \in DOMAIN collection /\ collection'[k] = collection[k]
             /\ \A k \in DOMAIN collection :
                    collection[k].metadata.doc_id # last'.doc_id
                        => k \in DOMAIN collection'
             /\ sqlite_sequence' = sqlite_sequence
        ELSE /\ last'.status = 404
             /\ documents' = documents
             /\ snippets' = snippets
             /\ collection' = collection
             /\ sqlite_sequence' = sqlite_sequence]_vars

(***************************************************************************)
(* Properties of concurrent calls, checked under SpecRace.                 *)
(***************************************************************************)
\* C16: in every reachable state, those between the steps of two concurrent
\* ingests of one path and of concurrent updates and deletes included, at
\* most one Document row has a given path.
C16_OneDocumentPerPath ==
    \A d1, d2 \in documents : d1.file_path = d2.file_path => d1 = d2

\* C16 witness: two ingests of one path both found no Document for it; the
\* first inserted its row and is storing its chunks, the insert of the
\* second violated the UNIQUE constraint
C16_Witness ==
    /\ calls[1].pc = "index_document"
    /\ calls[2] = Idle("IntegrityError")
    /\ sqlite_sequence.documents = 1
    /\ \E d \in documents : documents = {d} /\ d.file_path = calls[1].document.file_path

\* C23: concurrent ingests of one path are not coordinated: when the delete
\* step of one ingest runs between the document insert and the chunk
\* inserts of another ingest of the path, it goes on to delete the Document
\* that the other is storing chunks for, which is how a Chunk row or an
\* Embedding Record of a Document that no longer exists comes about.
C23_OrphansNeedOverlappingCalls ==
    [][\A a, b \in Workers :
        (/\ calls[a].pc \in {"insert_snippet", "index_document"}
         /\ calls[b].pc = "delete_embeddings"
         /\ calls[b].doc_id = calls[a].doc_id
         /\ calls'[b] # calls[b])
        => calls'[b].pc \in {"delete_records", "delete_snippets"}]_vars

(***************************************************************************)
(* Properties of the categorizer, checked under SpecCategorize.            *)
(***************************************************************************)
\* C22: when the categorizer's collaborator is unavailable, raises, or gives
\* an answer that cannot be parsed, categorize() does not raise: the ingest
\* gets the rule-based fallback result, whose category is one of CATEGORIES,
\* and succeeds with the Document stored under that category.
C22_FallbackWhenCategorizerFails ==
    (/\ last.op = "create_document" /\ last.categorized
     /\ last.answer.kind \in FailureKinds)
    =>
    /\ ~last.raised
    /\ last.categorization = _categorize_fallback(last.document.content)
    /\ \E k \in 1..Len(CATEGORIES) :
        CATEGORIES[k] = last.categorization.category
    /\ last.ret.document \in documents
    /\ last.ret.document.category = last.categorization.category
    /\ last.ret.document.summary = last.categorization.summary
    /\ FullyPersisted(documents, snippets, collection, last.document)

\* C22 witness: the collaborator's answer was not valid JSON, and the
\* document was stored under the category and tags the keyword rules give
C22_Witness ==
    /\ last.op = "create_document" /\ last.categorized
    /\ last.answer.kind = "invalid_json"
    /\ ~last.raised
    /\ last.categorization.category = "api"
    /\ last.categorization.tags = <<"rust", "api">>
    /\ last.categorization.summary = <<"f","n"," ","x">>
    /\ last.ret.document.category = "api"
    /\ last.ret.document.tags = << <<"rust", "api">> >>

(***************************************************************************)
(* Properties of the semantic stage, checked under SpecSearch.             *)
(***************************************************************************)
SearchDone == searchOut.op = "semantic_search"

\* the neighbor sequence the embedding service hands to the semantic stage
Neighbors ==
    EmbeddingService_search(searchIn.ranking, searchIn.query,
                            searchIn.limit * 2, searchIn.min_similarity, NoFilters)

\* the positions of the neighbors that are the first of a stored document
FirstOfDocument(N) ==
    {i \in 1..Len(N) :
        /\ \E d \in documents : d.id = N[i].metadata.doc_id
        /\ \A j \in 1..(i - 1) : N[j].metadata.doc_id # N[i].metadata.doc_id}

\* the k-th smallest member of a set of positions
Kth(F, k) == CHOOSE i \in F : Cardinality({j \in F : j <= i}) = k

\* C10: the semantic stage answers with at most limit Results and at most
\* one per document; the Results are the first neighbors of their documents,
\* in the order of the neighbor sequence, each with the similarity and the
\* chunk text of that first neighbor.  For the neighbors (doc1, 0.9),
\* (doc1, 0.8), (doc2, 0.85) and limit 2 they are doc1 with 0.9, then doc2.
C10_FirstNeighborPerDocument ==
    SearchDone =>
        LET N == Neighbors
            R == searchOut.results
            F == FirstOfDocument(N)
        IN  /\ Len(R) <= searchIn.limit
            /\ Len(R) = Min(searchIn.limit, Cardinality(F))
            /\ \A a, b \in 1..Len(R) :
                a # b => R[a].document.id # R[b].document.id
            /\ \A k \in 1..Len(R) :
                /\ R[k].document.id = N[Kth(F, k)].metadata.doc_id
                /\ R[k].similarity = N[Kth(F, k)].similarity
                /\ R[k].snippet = N[Kth(F, k)].chunk_text
            /\ (/\ searchIn.ranking = ExampleRanking
                /\ searchIn.limit = 2
                /\ Len(N) = 3
                /\ \A id \in {1, 2} : \E d \in documents : d.id = id)
               => /\ Len(R) = 2
                  /\ R[1].document.id = 1 /\ R[1].similarity = 90
                  /\ R[2].document.id = 2 /\ R[2].similarity = 85

\* C10 witness: the example search ran against documents 1 and 2 and gave
\* two Results, the first one document 1's first neighbor
C10_Witness ==
    /\ SearchDone
    /\ searchIn.ranking = ExampleRanking /\ searchIn.limit = 2
    /\ Len(Neighbors) = 3
    /\ Len(searchOut.results) = 2
    /\ searchOut.results[1].snippet = TextAt(1)
    /\ searchOut.results[2].document.id = 2

\* the threshold a request asks for: its min_similarity when it gives one,
\* 0.0 included, else the configured default
RequestedThreshold ==
    IF searchIn.min_similarity = <<>> THEN DefaultMinSimilarity
    ELSE searchIn.min_similarity[1]

\* C24: the semantic stage keeps a neighbor exactly when its similarity,
\* 1 - distance, is at least the requested threshold, for every explicit
\* min_similarity in [0, 1], 0.0 included, and for the default when none
\* is given; so every Result has a similarity from the threshold to 1.
C24_ExplicitThresholdHonoured ==
    (SearchDone /\ strip(searchIn.query) # <<>>) =>
        LET asked == query(searchIn.ranking, searchIn.limit * 2, NoFilters)
            kept == SelectList(asked,
                        [k \in 1..Len(asked) |->
                            100 - asked[k].distance >= RequestedThreshold])
            R == searchOut.results
        IN  /\ Len(Neighbors) = Len(kept)
            /\ \A k \in 1..Len(kept) :
                /\ Neighbors[k].chunk_id = kept[k].id
                /\ Neighbors[k].similarity = 100 - kept[k].distance
            /\ \A k \in 1..Len(R) :
                R[k].similarity >= RequestedThreshold /\ R[k].similarity <= 100

HighlightsDone == searchOut.op = "_extract_highlights"

\* where the maximal runs of characters outside seps start and end in s
RunStarts(s, seps) ==
    {i \in 1..Len(s) : s[i] \notin seps /\ (i = 1 \/ s[i - 1] \in seps)}

RunEnds(s, seps) ==
    {j \in 1..Len(s) : s[j] \notin seps /\ (j = Len(s) \/ s[j + 1] \in seps)}

\* the run of s that starts at i
RunAt(s, seps, i) ==
    LET ends == {j \in RunEnds(s, seps) : j >= i}
    IN  SubSeq(s, i, CHOOSE j \in ends : \A e \in ends : j <= e)

\* the whitespace-delimited terms of a query, in lower case
QueryTerms(q) ==
    {lower(RunAt(q, Whitespace, i)) : i \in RunStarts(q, Whitespace)}

\* the starts of the sentences of the text that, trimmed, are not empty and
\* contain a query term, whatever the case
HighlightStarts ==
    {i \in RunStarts(searchIn.text, SentenceEnds) :
        LET sentence == strip(RunAt(searchIn.text, SentenceEnds, i))
        IN  /\ sentence # <<>>
            /\ \E term \in QueryTerms(searchIn.query) :
                contains(lower(sentence), term)}

\* C26: the highlights are the first 3 sentences of the chunk text (split on
\* '.', '!', '?' or newline) that, trimmed, are non-empty and contain a
\* whitespace-delimited query term case-insensitively, in their original
\* order; one longer than 200 characters is cut to its first 200 characters
\* followed by "..."; an empty text or an empty query gives none.
C26_HighlightsAreFirstMatchingSentences ==
    HighlightsDone =>
        LET H == searchOut.highlights
        IN  /\ Len(H) <= 3
            /\ Len(H) = Min(3, Cardinality(HighlightStarts))
            /\ \A k \in 1..Len(H) :
                LET sentence ==
                        strip(RunAt(searchIn.text, SentenceEnds,
                                    Kth(HighlightStarts, k)))
                IN  H[k] = IF Len(sentence) > 200
                           THEN SubSeq(sentence, 1, 200) \o <<".",".",".">>
                           ELSE sentence
            /\ (searchIn.text = <<>> \/ searchIn.query = <<>>) => H = <<>>

\* four sentences match: the first three are returned, the long one cut
C26_Witness ==
    /\ HighlightsDone
    /\ Cardinality(HighlightStarts) = 4
    /\ Len(searchOut.highlights) = 3
    /\ Len(searchOut.highlights[2]) = 203
    /\ searchOut.highlights[3] = <<"a">>
    /\ searchOut.highlights[1] = <<"A"," ","b">>

(***************************************************************************)
(* Properties of search(), checked under SpecHybrid.                       *)
(***************************************************************************)
Searched == searchOut.op = "search"

\* the text the keyword stage looks into, for a returned document
SearchText(document) ==
    lower(document.file_path \o <<" ">> \o document.title \o <<" ">>
          \o document.summary)

\* the neighbors the semantic stage can make Results of: those the
\* collection answers within 2 * limit under the request's filters, at or
\* above the similarity threshold, whose document is stored
Qualifying ==
    LET request == searchIn.request
        N == query(searchIn.ranking, 2 * request.limit, Filters(request))
        threshold == IF request.min_similarity = <<>>
                        \/ request.min_similarity[1] = 0
                     THEN DefaultMinSimilarity
                     ELSE request.min_similarity[1]
    IN  {i \in 1..Len(N) :
            /\ strip(request.query) # <<>>
            /\ 100 - N[i].distance >= threshold
            /\ \E d \in documents : d.id = N[i].metadata.doc_id}

\* C11: search() runs the keyword stage exactly when the semantic stage
\* gave no Result, that is when no neighbor qualifies (for example when
\* all are below min_similarity); every document it then returns holds the
\* lower-cased query in its path/title/summary text, has similarity 1.0 and
\* the raw query as its only highlight, and at most limit are returned.
C11_KeywordOnlyAfterEmptySemantic ==
    (Searched /\ ~searchOut.raised) =>
        LET R == searchOut.results
            request == searchIn.request
        IN  /\ searchOut.keyword <=> searchOut.semantic = <<>>
            /\ searchOut.keyword <=> Qualifying = {}
            /\ searchOut.keyword =>
                /\ Len(R) <= request.limit
                /\ \A k \in 1..Len(R) :
                    /\ contains(SearchText(R[k].document),
                                lower(request.query))
                    /\ R[k].similarity = 100
                    /\ R[k].highlights = <<request.query>>

\* C11 witness: every neighbor was below min_similarity, the keyword stage
\* ran for the query "M" and returned the one document whose text holds "m"
C11_Witness ==
    /\ Searched /\ ~searchOut.raised
    /\ Len(searchIn.ranking) = 2
    /\ \A i \in 1..2 : searchIn.ranking[i].distance = 80
    /\ searchIn.request.query = <<"M">>
    /\ Cardinality(documents) = 2
    /\ searchOut.keyword
    /\ Len(searchOut.results) = 1
    /\ searchOut.results[1].document.file_path = <<"m",".","r","s">>

\* C12: when the embedding collaborator raises during a search, search()
\* does not raise: it runs the keyword stage and returns its Results.
C12_EmbeddingFailureFallsBack ==
    (Searched /\ searchIn.unavailable) =>
        LET request == searchIn.request
        IN  /\ ~searchOut.raised
            /\ searchOut.keyword
            /\ searchOut.results
               = PostFilter(request,
                            keyword_search(Stores, searchIn.rows,
                                           request.query, request.limit,
                                           request.content_type,
                                           request.language,
                                           request.category))

\* the tags of a returned document, an absent tag set being empty
TagSet(document) ==
    IF document.tags = <<>> THEN {}
    ELSE {document.tags[1][k] : k \in 1..Len(document.tags[1])}

\* C13: whichever stage produced them, the Results of a request with a
\* content_type all have that content_type, and the Results of a request
\* with tags all have a tag in common with the requested ones; a document
\* with an empty or absent tag set has none in common.
C13_PostFilterDropsMismatches ==
    (Searched /\ ~searchOut.raised) =>
        LET request == searchIn.request
            R == searchOut.results
        IN  \A k \in 1..Len(R) :
                /\ Truthy(request.content_type) =>
                    R[k].document.content_type = request.content_type
                /\ request.tags # <<>> =>
                    \E j \in 1..Len(request.tags) :
                        request.tags[j] \in TagSet(R[k].document)

\* whether the post-filter of a request drops a Result: its document has
\* another content_type than the requested one, or tags none of which is
\* requested
Dropped(request, r) ==
    \/ /\ Truthy(request.content_type)
       /\ r.document.content_type # request.content_type
    \/ /\ request.tags # <<>>
       /\ TagSet(r.document) # {}
       /\ \A j \in 1..Len(request.tags) :
            request.tags[j] \notin TagSet(r.document)

\* C29: search() returns at most limit Results, and whether the keyword
\* stage runs is decided before the content_type/tags post-filter: when the
\* semantic stage gave a Result the keyword stage does not run, and when the
\* post-filter drops every semantic Result the answer is empty.
C29_FallbackDecidedBeforePostFilter ==
    (Searched /\ ~searchOut.raised) =>
        LET request == searchIn.request
            S == searchOut.semantic
        IN  /\ Len(searchOut.results) <= request.limit
            /\ S # <<>> => ~searchOut.keyword
            /\ (S # <<>> /\ \A k \in 1..Len(S) : Dropped(request, S[k])) =>
                    searchOut.results = <<>>

\* C29 witness: the semantic stage found the document tagged "x", the
\* request asked for tag "y", and the answer is empty although the keyword
\* stage would have found the document for the query "M"
C29_Witness ==
    /\ Searched /\ ~searchOut.raised
    /\ searchIn.request.query = <<"M">>
    /\ searchIn.request.tags = <<"y">>
    /\ Len(searchOut.semantic) = 1
    /\ TagSet(searchOut.semantic[1].document) = {"x"}
    /\ searchOut.semantic[1].document.file_path = <<"m",".","r","s">>
    /\ ~searchOut.keyword
    /\ searchOut.results = <<>>
    /\ keyword_search(Stores, searchIn.rows, searchIn.request.query,
                      searchIn.request.limit, searchIn.request.content_type,
                      searchIn.request.language, searchIn.request.category)
       # <<>>

\* the metadata keys of an Embedding Record written by ingest
IngestMetadataKeys == {"file_path", "language", "intent", "doc_id", "chunk_index"}

\* C30: no Embedding Record written by ingest has a category in its
\* metadata, and the category of a request is part of the filter given to
\* the collection; so a search with a category has no semantic-stage
\* Result, and whatever it returns comes from the keyword stage.
C30_CategoryFilterDefeatsSemanticStage ==
    /\ \A id \in DOMAIN collection :
            DOMAIN collection[id].metadata = IngestMetadataKeys
    /\ (Searched /\ ~searchOut.raised
            /\ Truthy(searchIn.request.category)) =>
        /\ "category" \in DOMAIN Filters(searchIn.request)
        /\ searchOut.semantic = <<>>
        /\ searchOut.keyword
        /\ searchOut.results
           = PostFilter(searchIn.request,
                        keyword_search(Stores, searchIn.rows,
                                       searchIn.request.query,
                                       searchIn.request.limit,
                                       searchIn.request.content_type,
                                       searchIn.request.language,
                                       searchIn.request.category))

\* C30 witness: a search for category "api" with a close neighbor of a
\* document of that category returns the document from the keyword stage
C30_Witness ==
    /\ Searched /\ ~searchOut.raised
    /\ searchIn.request.category = "api"
    /\ searchIn.request.query = <<"M">>
    /\ Len(searchIn.ranking) >= 1
    /\ searchIn.ranking[1].distance = 10
    /\ \E d \in documents :
            d.id = searchIn.ranking[1].metadata.doc_id /\ d.category = "api"
    /\ searchOut.keyword
    /\ Len(searchOut.results) = 1
    /\ searchOut.results[1].document.category = "api"

====
